---- MODULE Spec2Model ----
(***************************************************************************)
(* S3Bench: the chunked concurrent download engine.                        *)
(*                                                                         *)
(* Spec (and FairSpec) model one call of downloadObject: the job queue,     *)
(* the worker pool, the index-addressed result table, the mutex-guarded    *)
(* first-TTFB cell, the join and the post-join error scan.                 *)
(* FetchSpec models one call of downloadChunk read by read, in both body   *)
(* modes. PlanSpec models planChunks iteration by iteration over every      *)
(* size of the model's int64. StatsSpec and AggSpec apply computeStats and  *)
(* computeAggregate to bounded inputs, float64 arithmetic rounding as the  *)
(* code's does at a smaller precision. SessionSpec models main from the    *)
(* size lookup to the final report. Each specification leaves the others'  *)
(* variables idle.                                                         *)
(*                                                                         *)
(* Durations are measured values (time.Since): the model draws them from   *)
(* small sets, a later reading of the same clock never being smaller than  *)
(* an earlier one. ChunkResult.StartTime is a wall-clock stamp that no     *)
(* code reads; it is not carried in the records.                           *)
(***************************************************************************)
EXTENDS Integers, Sequences, FiniteSets, Bags, TLC

\* ---------------------------------------------------------------- bounds

\* Largest object size (bytes) the HeadObject response is drawn from.
MaxObjectSize == 2
\* Largest --chunk-size drawn.
MaxChunkSize == 2
\* Largest --concurrency value drawn.
MaxConcurrency == 2
\* Largest duration a time.Since reading is drawn from.
MaxTime == 2
\* Width in bits of the model's int64: sizes and offsets wrap at 2^(IntBits-1)
\* the way the code's wrap at 2^63.
IntBits == 5
\* Significant bits of the model's float64 (53 in the code): integers up to
\* 2^FloatBits convert exactly, every operation rounds to nearest-even.
FloatBits == 7
\* time.Second in clock ticks (1e9 in the code).
TicksPerSecond == 4
\* Largest number of chunk outcomes computeStats is applied to.
MaxStatsLen == 100
\* Largest number of run summaries computeAggregate is applied to.
MaxAggRuns == 3
\* Largest length of --concurrency lists and largest --runs drawn.
MaxLevels == 2
MaxRuns == 2
\* Largest number of sweeps the comparison report is applied to.
MaxSweeps == 3
\* Largest length of the --concurrency argument drawn, in characters.
MaxRawLen == 3

VARIABLES
    chunks,       \* []ChunkSpec handed to downloadObject (planChunks' result)
    concurrency,  \* the concurrency argument
    mpc,          \* position of the calling goroutine inside downloadObject
    jobs,         \* buffered channel contents
    closed,       \* whether close(jobs) has been executed
    results,      \* []ChunkResult, indexed 0..len(chunks)-1
    workers,      \* the clamped worker count
    spawned,      \* loop counter i of the spawn loop
    wg,           \* sync.WaitGroup counter
    pool,         \* the worker goroutines: a bag of their local states
    mu,           \* sync.Mutex: TRUE while held
    firstTTFB,    \* the dispatch-level TTFB cell
    ttfbSet,      \* its write-once flag
    ret,          \* what downloadObject returned
    recvs,        \* history: per descriptor, how often it was received
    fetches,      \* history: per descriptor, how often downloadChunk ran
    writes,       \* history: per result slot, how often it was written
    firstCS,      \* history: chunk index of the first critical section
    errs,         \* history: the errors the downloadChunk calls returned
    firstFailed   \* history: chunk index of the first failed downloadChunk

\* One call of downloadChunk (FetchSpec).
VARIABLES
    dcChunk,      \* the chunk argument
    dcCapture,    \* outBufs != nil: write mode
    dcPc,         \* position inside downloadChunk
    dcBody,       \* resp.Body: the bytes it still delivers and how it ends
    dcTTFB,       \* the local ttfb
    dcN,          \* bytes read from the body so far
    dcBuf,        \* outBufs[chunk.Index], as the object offsets it holds
    dcRes,        \* the ChunkResult returned
    progress,     \* the shared atomic progress counter
    dcTrace       \* history: the events of the call, in order

\* One call of planChunks (PlanSpec).
VARIABLES
    plObjectSize, \* the objectSize argument
    plChunkSize,  \* the chunkSize argument
    plOffset,     \* the loop variable offset
    plIndex,      \* the local index
    plChunks,     \* the local chunks
    plPc          \* position inside planChunks

\* One call of computeStats (StatsSpec).
VARIABLES
    stResult,     \* the result argument (a DownloadResult)
    stArgs,       \* cfg, objectSize, runNumber and concurrency
    stSummary,    \* the RunSummary returned
    stPc          \* "input" before the call, "done" after

\* One call of computeAggregate (AggSpec).
VARIABLES
    agSummaries,  \* the summaries argument
    agAggregate,  \* the AggregateSummary returned
    agPc          \* "input" before the call, "done" after

\* One run of main (SessionSpec).
VARIABLES
    seCfg,          \* the validated Config
    sePc,           \* position inside main
    seHead,         \* the HeadObject response
    seObjectSize,   \* objectSize
    seChunks,       \* chunks
    seOutFile,      \* outFile != nil
    seSweeps,       \* sweeps
    seLevel,        \* position of conc in cfg.ConcurrencyList (from 1)
    seRun,          \* run
    seRunSummaries, \* runSummaries
    seOutcome,      \* what downloadObject returned
    sePlanned,      \* history: calls of planChunks
    seDispatched,   \* history: <<level, run>> of every downloadObject call
    seFailures,     \* history: <<level, run>> of every failed dispatch
    seEmitted       \* history: what was printed

\* One call of printComparisonReport (CompareSpec).
VARIABLES
    cmpSweeps,    \* the sweeps argument
    cmpBestIdx,   \* bestIdx after the scan
    cmpPc         \* "input" before the call, "done" after

\* The run loop of main with the dispatch read by read (RunSpec).
VARIABLES
    rnCfg,        \* cfg: ConcurrencyList, Runs, DiscardOutput
    rnChunks,     \* chunks
    rnPc,         \* position inside main
    rnLevel,      \* position of conc in cfg.ConcurrencyList (from 1)
    rnRun,        \* run
    rnOutBufs,    \* outBufs, indexed 0..len(chunks)-1; empty when nil
    rnProgress,   \* progress (atomic.Int64)
    rnJobs,       \* the job queue of the current dispatch
    rnPool,       \* the worker goroutines of the current dispatch
    rnResults,    \* results of the current dispatch
    rnRet,        \* what downloadObject returned
    rnFile,       \* outFile: its bytes and its offset
    rnRead        \* history: bytes read from response bodies in this run

\* parseConfig and what main does with its result (ConfigSpec).
VARIABLES
    cfFlags,      \* the command line, as the flag package hands it over
    cfPc,         \* position inside main
    cfOut,        \* what parseConfig returned
    cfClient      \* history: whether main went on to build the S3 client

\* The progress reporters of main's runs (ReporterSpec, FairReporterSpec).
VARIABLES
    rpCfg,        \* cfg: Runs, JSONOutput
    rpRun,        \* run
    rpMain,       \* position of main inside the run loop
    rpErr,        \* whether the run's downloadObject returned an error
    rpReporters,  \* per run: the reporter goroutine, its channels and ticker
    rpOut         \* history: what was printed, repeats of a line left out

dispatchVars ==
    <<chunks, concurrency, mpc, jobs, closed, results, workers, spawned,
      wg, pool, mu, firstTTFB, ttfbSet, ret, recvs, fetches, writes,
      firstCS, errs, firstFailed>>

fetchVars ==
    <<dcChunk, dcCapture, dcPc, dcBody, dcTTFB, dcN, dcBuf, dcRes, progress,
      dcTrace>>

planVars ==
    <<plObjectSize, plChunkSize, plOffset, plIndex, plChunks, plPc>>

statsVars == <<stResult, stArgs, stSummary, stPc>>

aggVars == <<agSummaries, agAggregate, agPc>>

sessionVars ==
    <<seCfg, sePc, seHead, seObjectSize, seChunks, seOutFile, seSweeps,
      seLevel, seRun, seRunSummaries, seOutcome, sePlanned, seDispatched,
      seFailures, seEmitted>>

compareVars == <<cmpSweeps, cmpBestIdx, cmpPc>>

configVars == <<cfFlags, cfPc, cfOut, cfClient>>

reporterVars == <<rpCfg, rpRun, rpMain, rpErr, rpReporters, rpOut>>

runVars ==
    <<rnCfg, rnChunks, rnPc, rnLevel, rnRun, rnOutBufs, rnProgress, rnJobs,
      rnPool, rnResults, rnRet, rnFile, rnRead>>

vars ==
    <<dispatchVars, fetchVars, planVars, statsVars, aggVars, sessionVars,
      compareVars,
      runVars,
      configVars,
      reporterVars>>

\* What a downloadObject step leaves alone.
notDispatch ==
    <<fetchVars, planVars, statsVars, aggVars, sessionVars, compareVars,
      runVars, configVars, reporterVars>>

\* What a downloadChunk step leaves alone.
notFetch ==
    <<dispatchVars, planVars, statsVars, aggVars, sessionVars,
      compareVars, runVars, configVars, reporterVars>>

\* What a planChunks step leaves alone.
notPlan ==
    <<dispatchVars, fetchVars, statsVars, aggVars, sessionVars,
      compareVars, runVars, configVars, reporterVars>>

\* What a computeStats step leaves alone.
notStats ==
    <<dispatchVars, fetchVars, planVars, aggVars, sessionVars,
      compareVars, runVars, configVars, reporterVars>>

\* What a computeAggregate step leaves alone.
notAgg ==
    <<dispatchVars, fetchVars, planVars, statsVars, sessionVars,
      compareVars, runVars, configVars, reporterVars>>

\* What a step of main leaves alone.
notSession ==
    <<dispatchVars, fetchVars, planVars, statsVars, aggVars,
      compareVars, runVars, configVars, reporterVars>>

\* What a printComparisonReport step leaves alone.
notCompare ==
    <<dispatchVars, fetchVars, planVars, statsVars, aggVars,
      sessionVars, runVars, configVars, reporterVars>>

\* What a step of the run loop leaves alone.
notRun ==
    <<dispatchVars, fetchVars, planVars, statsVars, aggVars,
      sessionVars, compareVars, configVars, reporterVars>>

\* What a parseConfig step leaves alone.
notConfig ==
    <<dispatchVars, fetchVars, planVars, statsVars, aggVars,
      sessionVars, compareVars, runVars, reporterVars>>

\* What a step of a progress reporter, or of main around it, leaves alone.
notReporter ==
    <<dispatchVars, fetchVars, planVars, statsVars, aggVars,
      sessionVars, compareVars, runVars, configVars>>

\* ------------------------------------------------------------ data types

NilErr == [kind |-> "nil", chunk |-> -1]

GetObjectErr(index) == [kind |-> "GetObject", chunk |-> index]

BodyErr(index) == [kind |-> "body", chunk |-> index]

\* The zero value of ChunkResult.
ZeroChunkResult ==
    [Index |-> 0, Size |-> 0, TTFB |-> 0, ElapsedTotal |-> 0, Err |-> NilErr]

NoChunk == [Index |-> -1, RangeStart |-> 0, RangeEnd |-> -1, Size |-> 0]

\* The zero value of DownloadResult.
ZeroDownloadResult == [Chunks |-> <<>>, TotalTime |-> 0, TTFB |-> 0]

NoReturn == [returned |-> FALSE, err |-> NilErr, result |-> ZeroDownloadResult]

\* The dispatch variables while another specification runs.
DispatchIdle ==
    /\ chunks = <<>>
    /\ concurrency = 1
    /\ mpc = "idle"
    /\ jobs = <<>>
    /\ closed = FALSE
    /\ results = <<>>
    /\ workers = 0
    /\ spawned = 0
    /\ wg = 0
    /\ pool = EmptyBag
    /\ mu = FALSE
    /\ firstTTFB = 0
    /\ ttfbSet = FALSE
    /\ ret = NoReturn
    /\ recvs = <<>>
    /\ fetches = <<>>
    /\ writes = <<>>
    /\ firstCS = -1
    /\ errs = {}
    /\ firstFailed = -1

\* The downloadChunk variables while another specification runs.
FetchIdle ==
    /\ dcChunk = NoChunk
    /\ dcCapture = FALSE
    /\ dcPc = "idle"
    /\ dcBody = <<>>
    /\ dcTTFB = 0
    /\ dcN = 0
    /\ dcBuf = <<>>
    /\ dcRes = ZeroChunkResult
    /\ progress = 0
    /\ dcTrace = <<>>

\* The planChunks variables while another specification runs.
PlanIdle ==
    /\ plObjectSize = 0
    /\ plChunkSize = 1
    /\ plOffset = 0
    /\ plIndex = 0
    /\ plChunks = <<>>
    /\ plPc = "idle"

\* The computeStats variables while another specification runs.
StatsIdle ==
    /\ stResult = ZeroDownloadResult
    /\ stArgs = <<>>
    /\ stSummary = <<>>
    /\ stPc = "idle"

\* The computeAggregate variables while another specification runs.
AggIdle ==
    /\ agSummaries = <<>>
    /\ agAggregate = <<>>
    /\ agPc = "idle"

\* The variables of main while another specification runs.
SessionIdle ==
    /\ seCfg = <<>>
    /\ sePc = "idle"
    /\ seHead = <<>>
    /\ seObjectSize = 0
    /\ seChunks = <<>>
    /\ seOutFile = FALSE
    /\ seSweeps = <<>>
    /\ seLevel = 0
    /\ seRun = 0
    /\ seRunSummaries = <<>>
    /\ seOutcome = NoReturn
    /\ sePlanned = 0
    /\ seDispatched = <<>>
    /\ seFailures = <<>>
    /\ seEmitted = <<>>

\* The printComparisonReport variables while another specification runs.
CompareIdle ==
    /\ cmpSweeps = <<>>
    /\ cmpBestIdx = 0
    /\ cmpPc = "idle"

\* An output file just created: no bytes, offset 0.
EmptyFile == [bytes |-> <<>>, off |-> 0]

\* The variables of the run loop while another specification runs.
RunIdle ==
    /\ rnCfg = <<>>
    /\ rnChunks = <<>>
    /\ rnPc = "idle"
    /\ rnLevel = 0
    /\ rnRun = 0
    /\ rnOutBufs = <<>>
    /\ rnProgress = 0
    /\ rnJobs = <<>>
    /\ rnPool = EmptyBag
    /\ rnResults = <<>>
    /\ rnRet = NoReturn
    /\ rnFile = EmptyFile
    /\ rnRead = 0

\* The parseConfig variables while another specification runs.
ConfigIdle ==
    /\ cfFlags = <<>>
    /\ cfPc = "idle"
    /\ cfOut = <<>>
    /\ cfClient = FALSE

\* The reporter variables while another specification runs.
ReporterIdle ==
    /\ rpCfg = <<>>
    /\ rpRun = 0
    /\ rpMain = "idle"
    /\ rpErr = FALSE
    /\ rpReporters = <<>>
    /\ rpOut = <<>>

\* A goroutine's local state: its position, the chunk of the current loop
\* iteration and the result downloadChunk is building. Goroutines carry no
\* identity in the code, so the pool is a bag of such records.
WorkerState(p, c, r) == [pc |-> p, chunk |-> c, res |-> r]

Idle == WorkerState("recv", NoChunk, ZeroChunkResult)

Exited == WorkerState("exited", NoChunk, ZeroChunkResult)

\* The pool with one goroutine in state s moved to state t.
Step(s, t) == (pool (-) SetToBag({s})) (+) SetToBag({t})

\* The goroutines of the pool, as a set of local states.
Goroutines == BagToSet(pool)

\* How many goroutines satisfy Test.
Count(Test(_)) ==
    LET S == {s \in Goroutines : Test(s)}
        RECURSIVE Sum(_)
        Sum(T) == IF T = {} THEN 0
                  ELSE LET x == CHOOSE y \in T : TRUE
                       IN  CopiesIn(x, pool) + Sum(T \ {x})
    IN  Sum(S)

\* -------------------------------------------------------------- planChunks

\* The int64 range of the model.
MaxInt64 == 2 ^ (IntBits - 1) - 1

MinInt64 == -(2 ^ (IntBits - 1))

\* An int64 result: the value wrapped into the int64 range.
Int64(x) == ((x - MinInt64) % 2 ^ IntBits) + MinInt64

\* Lines 80-89: the descriptor one loop iteration appends.
ChunkAt(objectSize, chunkSize, offset, index) ==
    LET end0 == Int64(Int64(offset + chunkSize) - 1)
        end  == IF end0 >= objectSize THEN Int64(objectSize - 1) ELSE end0
    IN  [Index |-> index, RangeStart |-> offset, RangeEnd |-> end,
         Size |-> Int64(Int64(end - offset) + 1)]

\* Line 79: offset += chunkSize.
NextOffset(offset, chunkSize) == Int64(offset + chunkSize)

\* Lines 79-91: the loop, from a given offset and index on.
RECURSIVE planFrom(_, _, _, _)
planFrom(objectSize, chunkSize, offset, index) ==
    IF offset < objectSize
    THEN <<ChunkAt(objectSize, chunkSize, offset, index)>>
         \o planFrom(objectSize, chunkSize, NextOffset(offset, chunkSize),
                     index + 1)
    ELSE <<>>

planChunks(objectSize, chunkSize) == planFrom(objectSize, chunkSize, 0, 0)

\* ----------------------------------------------------------------- Init

Init ==
    /\ FetchIdle
    /\ PlanIdle
    /\ StatsIdle
    /\ AggIdle
    /\ SessionIdle
    /\ CompareIdle
    /\ RunIdle
    /\ ConfigIdle
    /\ ReporterIdle
    /\ \E objectSize \in 0..MaxObjectSize, chunkSize \in 1..MaxChunkSize :
          chunks = planChunks(objectSize, chunkSize)
    /\ concurrency \in 1..MaxConcurrency
    /\ mpc = "load"
    /\ jobs = <<>>
    /\ closed = FALSE
    /\ results = <<>>
    /\ workers = 0
    /\ spawned = 0
    /\ wg = 0
    /\ pool = EmptyBag
    /\ mu = FALSE
    /\ firstTTFB = 0
    /\ ttfbSet = FALSE
    /\ ret = NoReturn
    /\ recvs = <<>>
    /\ fetches = <<>>
    /\ writes = <<>>
    /\ firstCS = -1
    /\ errs = {}
    /\ firstFailed = -1

\* ------------------------------------------------- the calling goroutine

\* The worker count without the clamp to len(chunks).
WorkerCountUnclamped(conc, n) == conc

\* Lines 125-128: the worker count: concurrency clamped to len(chunks).
WorkerCount(conc, n) == IF conc > n THEN n ELSE conc

\* The queue left open after it is filled.
CloseJobsNever == FALSE

\* Line 112: whether close(jobs) is executed after the queue is filled.
CloseJobs == TRUE

\* Lines 108-128: fill and close the job queue, allocate the result table,
\* clamp the worker count. No worker exists yet, so the steps are not
\* interleaved with anything.
Load ==
    /\ mpc = "load"
    /\ jobs' = chunks
    /\ closed' = CloseJobs
    /\ results' = [i \in 0..(Len(chunks) - 1) |-> ZeroChunkResult]
    /\ recvs' = [i \in 0..(Len(chunks) - 1) |-> 0]
    /\ fetches' = [i \in 0..(Len(chunks) - 1) |-> 0]
    /\ writes' = [i \in 0..(Len(chunks) - 1) |-> 0]
    /\ workers' = WorkerCount(concurrency, Len(chunks))
    /\ mpc' = "spawn"
    /\ UNCHANGED <<notDispatch, errs, firstFailed, chunks, concurrency, spawned, wg, pool, mu, firstTTFB,
                   ttfbSet, ret, firstCS>>

\* Lines 130-132: one iteration of the spawn loop: wg.Add(1); go func().
Spawn ==
    /\ mpc = "spawn"
    /\ spawned < workers
    /\ spawned' = spawned + 1
    /\ wg' = wg + 1
    /\ pool' = pool (+) SetToBag({Idle})
    /\ UNCHANGED <<notDispatch, errs, firstFailed, chunks, concurrency, mpc, jobs, closed, results, workers,
                   mu, firstTTFB, ttfbSet, ret, recvs, fetches, writes,
                   firstCS>>

\* Line 130: the spawn loop's exit test.
SpawnDone ==
    /\ mpc = "spawn"
    /\ ~(spawned < workers)
    /\ mpc' = "wait"
    /\ UNCHANGED <<notDispatch, errs, firstFailed, chunks, concurrency, jobs, closed, results, workers,
                   spawned, wg, pool, mu, firstTTFB, ttfbSet, ret, recvs,
                   fetches, writes, firstCS>>

\* A wait for the queue to drain instead of a join of the workers.
WaitReturnsEarly == jobs = <<>>

\* Line 151: when wg.Wait() lets the caller through.
WaitReturns == wg = 0

\* Line 151: wg.Wait().
Wait ==
    /\ mpc = "wait"
    /\ WaitReturns
    /\ mpc' = "scan"
    /\ UNCHANGED <<notDispatch, errs, firstFailed, chunks, concurrency, jobs, closed, results, workers,
                   spawned, wg, pool, mu, firstTTFB, ttfbSet, ret, recvs,
                   fetches, writes, firstCS>>

\* The indices of the result table that carry an error.
Failed(table) == {i \in DOMAIN table : table[i].Err # NilErr}

MinOf(S) == CHOOSE x \in S : \A y \in S : x <= y

MaxOf(S) == CHOOSE x \in S : \A y \in S : x >= y

\* The scan keeping the last error found instead of returning at the first.
ScanErrLast(table) ==
    IF Failed(table) = {} THEN NilErr ELSE table[MaxOf(Failed(table))].Err

\* Lines 154-158: the index-order scan: the first error found, or none.
ScanErr(table) ==
    IF Failed(table) = {} THEN NilErr ELSE table[MinOf(Failed(table))].Err

\* The return that hands out the result table beside the error.
ReturnValuePartial(table, totalTime, ttfb) ==
    [returned |-> TRUE, err |-> ScanErr(table),
     result |-> [Chunks |-> table, TotalTime |-> totalTime, TTFB |-> ttfb]]

\* The return that reports chunk 0's TTFB instead of the guarded cell.
ReturnValueFirstChunk(table, totalTime, ttfb) ==
    IF ScanErr(table) # NilErr
    THEN [returned |-> TRUE, err |-> ScanErr(table),
          result |-> ZeroDownloadResult]
    ELSE [returned |-> TRUE, err |-> NilErr,
          result |-> [Chunks |-> table, TotalTime |-> totalTime,
                      TTFB |-> IF 0 \in DOMAIN table THEN table[0].TTFB
                                                     ELSE 0]]

\* Lines 154-164: the value downloadObject returns; totalTime is the measured
\* time.Since(overallStart).
ReturnValue(table, totalTime, ttfb) ==
    IF ScanErr(table) # NilErr
    THEN [returned |-> TRUE, err |-> ScanErr(table),
          result |-> ZeroDownloadResult]
    ELSE [returned |-> TRUE, err |-> NilErr,
          result |-> [Chunks |-> table, TotalTime |-> totalTime,
                      TTFB |-> ttfb]]

\* Lines 152-164: measure the total time, scan, return.
Scan ==
    /\ mpc = "scan"
    /\ \E totalTime \in 0..MaxTime :
          ret' = ReturnValue(results, totalTime, firstTTFB)
    /\ mpc' = "done"
    /\ UNCHANGED <<notDispatch, errs, firstFailed, chunks, concurrency, jobs, closed, results, workers,
                   spawned, wg, pool, mu, firstTTFB, ttfbSet, recvs, fetches,
                   writes, firstCS>>

\* --------------------------------------------------- a worker goroutine

\* A receive that leaves the descriptor in the channel.
AfterRecvPeek(queue) == queue

\* Line 134: what a receive leaves in the channel.
AfterRecv(queue) == Tail(queue)

\* Line 134: for chunk := range jobs, a descriptor is available.
Recv(s) ==
    /\ s.pc = "recv"
    /\ jobs # <<>>
    /\ pool' = Step(s, WorkerState("fetch", Head(jobs), ZeroChunkResult))
    /\ recvs' = [recvs EXCEPT ![Head(jobs).Index] = @ + 1]
    /\ jobs' = AfterRecv(jobs)
    /\ UNCHANGED <<notDispatch, errs, firstFailed, chunks, concurrency, mpc, closed, results, workers,
                   spawned, wg, mu, firstTTFB, ttfbSet, ret, fetches, writes,
                   firstCS>>

\* Lines 133-134, 147: the queue is drained and closed: the range loop ends
\* and the deferred wg.Done() runs. An empty queue that is not closed blocks.
Exit(s) ==
    /\ s.pc = "recv"
    /\ jobs = <<>>
    /\ closed
    /\ pool' = Step(s, Exited)
    /\ wg' = wg - 1
    /\ UNCHANGED <<notDispatch, errs, firstFailed, chunks, concurrency, mpc, jobs, closed, results, workers,
                   spawned, mu, firstTTFB, ttfbSet, ret, recvs, fetches,
                   writes, firstCS>>

\* Lines 186-190: the outcome of a failed GetObject call.
RequestFailed(chunk) ==
    [Index |-> chunk.Index, Size |-> 0, TTFB |-> 0, ElapsedTotal |-> 0,
     Err |-> GetObjectErr(chunk.Index)]

\* Lines 213-218, 225-230: the outcome of a failed body read.
ReadFailed(chunk, ttfb) ==
    [Index |-> chunk.Index, Size |-> 0, TTFB |-> ttfb, ElapsedTotal |-> 0,
     Err |-> BodyErr(chunk.Index)]

\* A completed fetch whose outcome does not carry the chunk's index.
FetchedNoIndex(chunk, n, ttfb, elapsed) ==
    [Index |-> 0, Size |-> n, TTFB |-> ttfb, ElapsedTotal |-> elapsed,
     Err |-> NilErr]

\* Lines 234-240: the outcome of a completed fetch of n bytes.
Fetched(chunk, n, ttfb, elapsed) ==
    [Index |-> chunk.Index, Size |-> n, TTFB |-> ttfb,
     ElapsedTotal |-> elapsed, Err |-> NilErr]

\* Lines 135, 177-196: downloadChunk is entered and GetObject returns, with
\* an error or with the response headers after a measured ttfb.
GetObject(s) ==
    /\ s.pc = "fetch"
    /\ fetches' = [fetches EXCEPT ![s.chunk.Index] = @ + 1]
    /\ \/ /\ pool' = Step(s, WorkerState("write", s.chunk,
                                         RequestFailed(s.chunk)))
          /\ errs' = errs \cup {RequestFailed(s.chunk).Err}
          /\ firstFailed' = IF firstFailed = -1 THEN s.chunk.Index
                                                ELSE firstFailed
       \/ /\ \E ttfb \in 1..MaxTime :
                pool' = Step(s, WorkerState("body", s.chunk,
                                [ZeroChunkResult EXCEPT !.TTFB = ttfb]))
          /\ UNCHANGED <<errs, firstFailed>>
    /\ UNCHANGED <<notDispatch, chunks, concurrency, mpc, jobs, closed, results, workers,
                   spawned, wg, mu, firstTTFB, ttfbSet, ret, recvs, writes,
                   firstCS>>

\* Lines 205-241: the body is consumed: a read error, or the chunk's bytes
\* and the elapsed time, a later reading of the clock ttfb was read from.
Body(s) ==
    /\ s.pc = "body"
    /\ \/ /\ pool' = Step(s, WorkerState("write", s.chunk,
                                         ReadFailed(s.chunk, s.res.TTFB)))
          /\ errs' = errs \cup {ReadFailed(s.chunk, s.res.TTFB).Err}
          /\ firstFailed' = IF firstFailed = -1 THEN s.chunk.Index
                                                ELSE firstFailed
       \/ /\ \E elapsed \in s.res.TTFB..MaxTime :
                pool' = Step(s, WorkerState("write", s.chunk,
                                Fetched(s.chunk, s.chunk.Size, s.res.TTFB,
                                        elapsed)))
          /\ UNCHANGED <<errs, firstFailed>>
    /\ UNCHANGED <<notDispatch, chunks, concurrency, mpc, jobs, closed, results, workers,
                   spawned, wg, mu, firstTTFB, ttfbSet, ret, recvs, fetches,
                   writes, firstCS>>

\* Line 137: the slot a worker writes its outcome to.
Slot(chunk) == chunk.Index

\* A worker that fetches a failed chunk again.
AfterWriteRetry(chunk, r) ==
    IF r.Err = NilErr
    THEN WorkerState("lock", chunk, r)
    ELSE WorkerState("fetch", chunk, ZeroChunkResult)

\* Line 139: where a worker goes after storing an outcome: to the mutex on
\* success, back to the queue on failure.
AfterWrite(chunk, r) ==
    IF r.Err = NilErr
    THEN WorkerState("lock", chunk, r)
    ELSE Idle

\* Lines 137-139: results[chunk.Index] = res, then the test of res.Err.
Write(s) ==
    /\ s.pc = "write"
    /\ results' = [results EXCEPT ![Slot(s.chunk)] = s.res]
    /\ writes' = [writes EXCEPT ![Slot(s.chunk)] = @ + 1]
    /\ pool' = Step(s, AfterWrite(s.chunk, s.res))
    /\ UNCHANGED <<notDispatch, errs, firstFailed, chunks, concurrency, mpc, jobs, closed, workers, spawned,
                   wg, mu, firstTTFB, ttfbSet, ret, recvs, fetches, firstCS>>

\* Line 140: when mu.Lock() lets a worker through.
LockFree == ~mu

\* Line 140: mu.Lock().
Lock(s) ==
    /\ s.pc = "lock"
    /\ LockFree
    /\ mu' = TRUE
    /\ firstCS' = IF firstCS = -1 THEN s.chunk.Index ELSE firstCS
    /\ pool' = Step(s, [s EXCEPT !.pc = "cs"])
    /\ UNCHANGED <<notDispatch, errs, firstFailed, chunks, concurrency, mpc, jobs, closed, results, workers,
                   spawned, wg, firstTTFB, ttfbSet, ret, recvs, fetches,
                   writes>>

\* A critical section without the ttfbSet test: the last writer wins.
StoresTTFBAlways(isSet) == TRUE

\* Line 141: whether the critical section stores the worker's TTFB.
StoresTTFB(isSet) == ~isSet

\* Lines 141-145: the critical section and mu.Unlock().
SetTTFB(s) ==
    /\ s.pc = "cs"
    /\ IF StoresTTFB(ttfbSet)
       THEN firstTTFB' = s.res.TTFB /\ ttfbSet' = TRUE
       ELSE UNCHANGED <<firstTTFB, ttfbSet>>
    /\ mu' = FALSE
    /\ pool' = Step(s, Idle)
    /\ UNCHANGED <<notDispatch, errs, firstFailed, chunks, concurrency, mpc, jobs, closed, results, workers,
                   spawned, wg, ret, recvs, fetches, writes, firstCS>>

Worker(s) ==
    \/ Recv(s)
    \/ Exit(s)
    \/ GetObject(s)
    \/ Body(s)
    \/ Write(s)
    \/ Lock(s)
    \/ SetTTFB(s)

Next ==
    \/ Load
    \/ Spawn
    \/ SpawnDone
    \/ Wait
    \/ Scan
    \/ \E s \in Goroutines : Worker(s)

Spec == Init /\ [][Next]_vars

\* Every goroutine that can take a step eventually takes one: the Go
\* scheduler runs every runnable goroutine, and every GetObject call and
\* body read is assumed to terminate.
FairSpec == Spec /\ WF_vars(Next)

\* ------------------------------------------------------- downloadChunk

\* The descriptors planChunks yields for the sizes drawn.
PlannedChunks ==
    UNION {{planChunks(o, c)[i] : i \in 1..Len(planChunks(o, c))} :
             <<o, c>> \in (0..MaxObjectSize) \X (1..MaxChunkSize)}

\* How a response body can end once its bytes are delivered: a clean end of
\* stream, a connection closed short of Content-Length (net/http reports
\* io.ErrUnexpectedEOF), or any other transport error.
StreamEnds == {"EOF", "ErrUnexpectedEOF", "reset"}

FetchInit ==
    /\ DispatchIdle
    /\ PlanIdle
    /\ StatsIdle
    /\ AggIdle
    /\ SessionIdle
    /\ CompareIdle
    /\ RunIdle
    /\ ConfigIdle
    /\ ReporterIdle
    /\ dcChunk \in PlannedChunks
    /\ dcCapture \in BOOLEAN
    /\ dcPc = "start"
    /\ dcBody = <<>>
    /\ dcTTFB = 0
    /\ dcN = 0
    /\ dcBuf = <<>>
    /\ dcRes = ZeroChunkResult
    /\ progress = 0
    /\ dcTrace = <<>>

\* Lines 177-196: start is taken, GetObject returns an error, or a response
\* whose body delivers some bytes (fewer, as many or more than the range
\* asked for) and then ends; ttfb is measured before any body byte is read.
DcRequest ==
    /\ dcPc = "start"
    /\ \/ /\ dcRes' = RequestFailed(dcChunk)
          /\ dcPc' = "done"
          /\ dcTrace' = <<"start", "GetObject">>
          /\ UNCHANGED <<dcBody, dcTTFB>>
       \/ /\ \E left \in 0..(dcChunk.Size + 1), end \in StreamEnds :
                dcBody' = [left |-> left, end |-> end]
          /\ dcTTFB' \in 1..MaxTime
          /\ dcPc' = "read"
          /\ dcTrace' = <<"start", "GetObject", "ttfb">>
          /\ UNCHANGED dcRes
    /\ UNCHANGED <<notFetch, dcChunk, dcCapture, dcN, dcBuf, progress>>

\* How many bytes the reader still asks for: io.ReadFull fills the buffer
\* of chunk.Size bytes, io.Copy reads whatever comes.
Wanted == IF dcCapture THEN dcChunk.Size - dcN ELSE dcBody.left

\* Lines 26-32, 210, 223: one Read of the counting reader that delivers
\* bytes: they are counted into progress as they arrive.
DcRead ==
    /\ dcPc = "read"
    /\ dcBody.left > 0
    /\ Wanted > 0
    /\ \E k \in 1..(IF Wanted < dcBody.left THEN Wanted ELSE dcBody.left) :
          /\ dcN' = dcN + k
          /\ progress' = progress + k
          /\ dcBody' = [dcBody EXCEPT !.left = @ - k]
    /\ dcTrace' = Append(dcTrace, "Read")
    /\ UNCHANGED <<notFetch, dcChunk, dcCapture, dcPc, dcTTFB, dcBuf, dcRes>>

\* io.ReadFull's error for n bytes read into a buffer of size bytes from a
\* stream that then ended with end.
ReadFullErr(n, size, end) ==
    IF n >= size THEN "nil"
    ELSE IF n > 0 /\ end = "EOF" THEN "ErrUnexpectedEOF"
    ELSE end

\* io.Copy's error for a stream that ended with end.
CopyErr(end) == IF end = "EOF" THEN "nil" ELSE end

\* Line 212: the read errors write mode lets pass.
Tolerated(err) == err = "nil" \/ err = "ErrUnexpectedEOF"

\* The error the read of the body ends with.
BodyReadErr ==
    IF dcCapture
    THEN ReadFullErr(dcN, dcChunk.Size, dcBody.end)
    ELSE CopyErr(dcBody.end)

\* Line 212, 224: whether downloadChunk returns the read error.
ReadFails(err) == IF dcCapture THEN ~Tolerated(err) ELSE err # "nil"

\* buf[:n]: the first n bytes of the chunk's range.
Captured(chunk, n) == [i \in 1..n |-> chunk.RangeStart + i - 1]

\* A clock whose later readings can lie before earlier ones.
SinceAnyReading(earlier) == 0..MaxTime

\* Lines 196, 239: the values time.Since(start) can have after it had the
\* value earlier: the monotonic clock does not go back.
Since(earlier) == earlier..MaxTime

\* Lines 205-241: the read of the body is over: the buffer is full, or the
\* stream ended. The error is returned, or the outcome with the bytes read
\* and, in write mode, outBufs[chunk.Index] = buf[:n].
DcFinish ==
    /\ dcPc = "read"
    /\ \/ dcCapture /\ dcN >= dcChunk.Size
       \/ dcBody.left = 0
    /\ IF ReadFails(BodyReadErr)
       THEN /\ dcRes' = ReadFailed(dcChunk, dcTTFB)
            /\ UNCHANGED <<dcBuf, dcTrace>>
       ELSE /\ \E elapsed \in Since(dcTTFB) :
                  dcRes' = Fetched(dcChunk, dcN, dcTTFB, elapsed)
            /\ dcTrace' = Append(dcTrace, "totalElapsed")
            /\ dcBuf' = IF dcCapture THEN Captured(dcChunk, dcN) ELSE dcBuf
    /\ dcPc' = "done"
    /\ UNCHANGED <<notFetch, dcChunk, dcCapture, dcBody, dcTTFB, dcN,
                   progress>>

FetchNext ==
    \/ DcRequest
    \/ DcRead
    \/ DcFinish

FetchSpec == FetchInit /\ [][FetchNext]_vars

\* ---------------------------------------------------------- planChunks

\* The longest plan of a loop that ends: one chunk per byte of the largest
\* object. A loop that runs past it is not followed further.
MaxPlanLen == MaxInt64 + 1

PlanInit ==
    /\ DispatchIdle
    /\ FetchIdle
    /\ StatsIdle
    /\ AggIdle
    /\ SessionIdle
    /\ CompareIdle
    /\ RunIdle
    /\ ConfigIdle
    /\ ReporterIdle
    /\ plObjectSize \in 0..MaxInt64
    /\ plChunkSize \in 1..MaxInt64
    /\ plOffset = 0
    /\ plIndex = 0
    /\ plChunks = <<>>
    /\ plPc = "loop"

\* Lines 79-91: one iteration of the loop.
PlanIter ==
    /\ plPc = "loop"
    /\ plOffset < plObjectSize
    /\ Len(plChunks) < MaxPlanLen
    /\ plChunks' = Append(plChunks,
                          ChunkAt(plObjectSize, plChunkSize, plOffset, plIndex))
    /\ plIndex' = plIndex + 1
    /\ plOffset' = NextOffset(plOffset, plChunkSize)
    /\ UNCHANGED <<notPlan, plObjectSize, plChunkSize, plPc>>

\* Lines 79, 92: the loop test fails: return chunks.
PlanReturn ==
    /\ plPc = "loop"
    /\ ~(plOffset < plObjectSize)
    /\ plPc' = "done"
    /\ UNCHANGED <<notPlan, plObjectSize, plChunkSize, plOffset, plIndex,
                   plChunks>>

PlanNext ==
    \/ PlanIter
    \/ PlanReturn

PlanSpec == PlanInit /\ [][PlanNext]_vars

\* ------------------------------------------------------------- float64

\* A float64 of the model: the value m * 2^e, with m = 0 or
\* 2^(FloatBits-1) <= |m| < 2^FloatBits (FloatBits significant bits where the
\* code's float64 has 53). Every operation rounds to nearest, ties to even.
FZero == [m |-> 0, e |-> 0]

\* The float64 nearest to (num / den) * 2^e, for num >= 0 and den > 0.
RECURSIVE FRound(_, _, _)
FRound(num, den, e) ==
    IF num = 0 THEN FZero
    ELSE IF num < den * 2 ^ (FloatBits - 1) THEN FRound(2 * num, den, e - 1)
    ELSE IF num >= den * 2 ^ FloatBits THEN FRound(num, 2 * den, e + 1)
    ELSE LET q  == num \div den
             r  == num % den
             up == 2 * r > den \/ (2 * r = den /\ q % 2 = 1)
             q1 == IF up THEN q + 1 ELSE q
         IN  IF q1 = 2 ^ FloatBits
             THEN [m |-> 2 ^ (FloatBits - 1), e |-> e + 1]
             ELSE [m |-> q1, e |-> e]

\* float64(x) of an integer x >= 0.
Float64(x) == FRound(x, 1, 0)

\* a + b of two floats >= 0.
FAdd(a, b) ==
    IF a.m = 0 THEN b
    ELSE IF b.m = 0 THEN a
    ELSE LET e0 == IF a.e < b.e THEN a.e ELSE b.e
         IN  FRound(a.m * 2 ^ (a.e - e0) + b.m * 2 ^ (b.e - e0), 1, e0)

\* a / b of two floats, a >= 0 and b > 0.
FDiv(a, b) == FRound(a.m, b.m, a.e - b.e)

\* a / 2^k: exact.
FDivPow2(a, k) == IF a.m = 0 THEN a ELSE [m |-> a.m, e |-> a.e - k]

\* -a.
FNeg(a) == [m |-> -a.m, e |-> a.e]

\* a < b of two floats >= 0.
FLess(a, b) ==
    IF b.m = 0 THEN FALSE
    ELSE IF a.m = 0 THEN TRUE
    ELSE IF a.e # b.e THEN a.e < b.e
    ELSE a.m < b.m

\* time.Duration(f) of a float >= 0: the integer part.
Duration(f) ==
    IF f.e >= 0 THEN f.m * 2 ^ f.e
    ELSE IF -f.e >= 2 * FloatBits THEN 0
    ELSE f.m \div 2 ^ (-f.e)

\* time.Duration.Seconds: whole seconds plus the remaining ticks over the
\* ticks of a second, both parts carrying the sign of d.
Seconds(d) ==
    LET a    == IF d < 0 THEN -d ELSE d
        sec  == a \div TicksPerSecond
        nsec == a % TicksPerSecond
        s    == FAdd(Float64(sec), FDiv(Float64(nsec), Float64(TicksPerSecond)))
    IN  IF d < 0 THEN FNeg(s) ELSE s

\* --------------------------------------------------------- computeStats

\* The values of seq, the one of rank k at place k.
Place(seq, rank) ==
    <<>> \o [k \in 1..Len(seq) |->
               seq[CHOOSE i \in 1..Len(seq) : rank[i] = k]]

\* The descending order in place of the ascending one.
SortDescending(seq) ==
    Place(seq,
          <<>> \o [i \in 1..Len(seq) |->
                     1 + Cardinality({j \in 1..Len(seq) :
                            \/ FLess(seq[i], seq[j])
                            \/ ~FLess(seq[j], seq[i]) /\ j < i})])

\* sort.Float64s: the values in ascending order. The rank of a value is one
\* more than the number of values that are smaller, or equal and earlier.
SortFloat64s(seq) ==
    Place(seq,
          <<>> \o [i \in 1..Len(seq) |->
                     1 + Cardinality({j \in 1..Len(seq) :
                            \/ FLess(seq[j], seq[i])
                            \/ ~FLess(seq[i], seq[j]) /\ j < i})])

\* len(result.Chunks); the table is indexed from 0.
NumChunks(result) == Cardinality(DOMAIN result.Chunks)

\* Lines 57-60: the sum of c.Size over the chunks of index lo..hi (the range
\* is halved to keep the evaluation shallow).
RECURSIVE TotalBytesFrom(_, _, _)
TotalBytesFrom(cs, lo, hi) ==
    IF lo > hi THEN 0
    ELSE IF lo = hi THEN cs[lo].Size
    ELSE TotalBytesFrom(cs, lo, (lo + hi) \div 2)
         + TotalBytesFrom(cs, (lo + hi) \div 2 + 1, hi)

\* The chunk count in place of the byte count.
TotalBytesAsCount(cs, k) == k

\* Lines 55-60: totalBytes over the k chunks of result.Chunks.
TotalBytesOf(cs, k) == TotalBytesFrom(cs, 0, k - 1)

\* Lines 57-60: durations = float64(c.ElapsedTotal) over the k chunks.
DurationsOf(cs, k) ==
    <<>> \o [i \in 1..k |-> Float64(cs[i - 1].ElapsedTotal)]

\* Lines 65-68: sum after sum += d for the durations lo..hi, in order (the
\* range is halved to keep the evaluation shallow; a sum is never negative).
RECURSIVE SumFloatsFrom(_, _, _, _)
SumFloatsFrom(sum, seq, lo, hi) ==
    IF sum.m < 0 \/ lo > hi THEN sum
    ELSE IF lo = hi THEN FAdd(sum, seq[lo])
    ELSE SumFloatsFrom(SumFloatsFrom(sum, seq, lo, (lo + hi) \div 2),
                       seq, (lo + hi) \div 2 + 1, hi)

\* Lines 64-68: sum over all durations, from 0.0.
SumFloats(seq) == SumFloatsFrom(FZero, seq, 1, Len(seq))

\* math.Ceil(p / 100.0 * float64(n)) for p in {50, 95, 99}: the quotient
\* p / 100.0 is exact for 50 and rounds below p/100 for 95 and 99, so the
\* rounded product never exceeds p*n/100 and its ceiling is the integer
\* ceiling.
CeilRank(p, n) == (p * n + 99) \div 100

\* The rank rounded down instead of up.
PercentileIdxFloor(p, n) ==
    LET idx == (p * n) \div 100 - 1
    IN  IF idx < 0 THEN 0 ELSE IF idx >= n THEN n - 1 ELSE idx

\* Lines 74-81: the clamped index.
PercentileIdx(p, n) ==
    LET idx == CeilRank(p, n) - 1
    IN  IF idx < 0 THEN 0 ELSE IF idx >= n THEN n - 1 ELSE idx

\* Lines 70-82: the percentile closure over the sorted durations.
Percentile(durations, p) ==
    LET n == Len(durations)
    IN  IF n = 0 THEN 0 ELSE Duration(durations[PercentileIdx(p, n) + 1])

\* A mean that is the sum of the durations, not divided by their number.
MeanOfUndivided(sum, n) == Duration(sum)

\* Line 88: meanD.
MeanOf(sum, n) == Duration(FDiv(sum, Float64(n)))

\* Lines 84-89 and 110-117: the LatencyStats block.
LatencyOf(durations) ==
    LET n == Len(durations)
    IN  [Min  |-> IF n > 0 THEN Duration(durations[1]) ELSE 0,
         Max  |-> IF n > 0 THEN Duration(durations[n]) ELSE 0,
         Mean |-> IF n > 0 THEN MeanOf(SumFloats(durations), n) ELSE 0,
         P50  |-> Percentile(durations, 50),
         P95  |-> Percentile(durations, 95),
         P99  |-> Percentile(durations, 99)]

\* Lines 91-96: float64(totalBytes) / (1 << shift) / elapsed, 0 unless
\* elapsed > 0.
Throughput(totalBytes, elapsed, shift) ==
    IF elapsed.m > 0
    THEN FDiv(FDivPow2(Float64(totalBytes), shift), elapsed)
    ELSE FZero

computeStats(result, cfg, objectSize, runNumber, conc) ==
    LET n          == NumChunks(result)
        totalBytes == TotalBytesOf(result.Chunks, n)
        durations  == SortFloat64s(DurationsOf(result.Chunks, n))
        elapsed    == Seconds(result.TotalTime)
    IN  [RunNumber    |-> runNumber,
         ObjectSize   |-> objectSize,
         TotalBytes   |-> totalBytes,
         ChunkCount   |-> n,
         ChunkSize    |-> cfg.ChunkSize,
         Concurrency  |-> conc,
         TotalTime    |-> result.TotalTime,
         TTFB         |-> result.TTFB,
         ThroughputMB |-> Throughput(totalBytes, elapsed, 20),
         ThroughputGB |-> Throughput(totalBytes, elapsed, 30),
         ChunkLatency |-> LatencyOf(durations)]

\* ----------------------------------------------------- computeAggregate

ZeroAggregateSummary ==
    [Runs |-> 0,
     MinThroughputMB |-> FZero, MaxThroughputMB |-> FZero,
     MeanThroughputMB |-> FZero,
     MinThroughputGB |-> FZero, MaxThroughputGB |-> FZero,
     MeanThroughputGB |-> FZero]

\* Lines 130-133: minMB after the loop over the first k summaries.
RECURSIVE MinMB(_, _)
MinMB(summaries, k) ==
    IF k = 0 THEN summaries[1].ThroughputMB
    ELSE LET prev == MinMB(summaries, k - 1)
         IN  IF FLess(summaries[k].ThroughputMB, prev)
             THEN summaries[k].ThroughputMB ELSE prev

\* Lines 130, 134-136: maxMB after the loop over the first k summaries.
RECURSIVE MaxMB(_, _)
MaxMB(summaries, k) ==
    IF k = 0 THEN summaries[1].ThroughputMB
    ELSE LET prev == MaxMB(summaries, k - 1)
         IN  IF FLess(prev, summaries[k].ThroughputMB)
             THEN summaries[k].ThroughputMB ELSE prev

\* Lines 128, 137: sumMB after the loop over the first k summaries.
RECURSIVE SumMB(_, _)
SumMB(summaries, k) ==
    IF k = 0 THEN FZero
    ELSE FAdd(SumMB(summaries, k - 1), summaries[k].ThroughputMB)

\* The sum in place of the mean.
MeanMBUndivided(sumMB, n) == sumMB

\* Line 140: meanMB.
MeanMB(sumMB, n) == FDiv(sumMB, Float64(n))

computeAggregate(summaries) ==
    IF Len(summaries) = 0 THEN ZeroAggregateSummary
    ELSE LET n      == Len(summaries)
             minMB  == MinMB(summaries, n)
             maxMB  == MaxMB(summaries, n)
             meanMB == MeanMB(SumMB(summaries, n), n)
         IN  [Runs |-> n,
              MinThroughputMB  |-> minMB,
              MaxThroughputMB  |-> maxMB,
              MeanThroughputMB |-> meanMB,
              MinThroughputGB  |-> FDivPow2(minMB, 10),
              MaxThroughputGB  |-> FDivPow2(maxMB, 10),
              MeanThroughputGB |-> FDivPow2(meanMB, 10)]

\* ------------------------------------------- computeStats, applied

\* The elapsed times the outcomes carry: the i-th of a family g is
\* g.unit * (((g.a * i + g.b) % g.k) + 1), which gives orders and repeats of
\* every kind; every value converts to float64 exactly.
ElapsedFamilies ==
    {[a |-> 1, b |-> 0, k |-> 4, unit |-> 100],
     [a |-> 3, b |-> 1, k |-> 4, unit |-> 100],
     [a |-> 1, b |-> 0, k |-> 1, unit |-> 1],
     [a |-> 7, b |-> 3, k |-> 2 ^ FloatBits - 1, unit |-> 1]}

ElapsedAt(g, i) == g.unit * (((g.a * i + g.b) % g.k) + 1)

\* A successful dispatch result of n outcomes.
StatsResult(n, g, totalTime) ==
    [Chunks    |-> [i \in 0..(n - 1) |->
                       [Index |-> i, Size |-> 1 + (i % MaxChunkSize),
                        TTFB |-> 1, ElapsedTotal |-> ElapsedAt(g, i + 1),
                        Err |-> NilErr]],
     TotalTime |-> totalTime,
     TTFB      |-> IF n = 0 THEN 0 ELSE 1]

StatsInit ==
    /\ DispatchIdle
    /\ FetchIdle
    /\ PlanIdle
    /\ AggIdle
    /\ SessionIdle
    /\ CompareIdle
    /\ RunIdle
    /\ ConfigIdle
    /\ ReporterIdle
    /\ \E n \in 0..MaxStatsLen, g \in ElapsedFamilies,
          totalTime \in (-1)..(TicksPerSecond + MaxTime) :
          /\ stResult = StatsResult(n, g, totalTime)
          /\ stArgs = [cfg |-> [ChunkSize |-> MaxChunkSize],
                       objectSize |-> n * MaxChunkSize,
                       runNumber |-> 1 + (n % MaxRuns),
                       concurrency |-> 1 + (n % MaxConcurrency)]
    /\ stSummary = <<>>
    /\ stPc = "input"

\* main.go line 109: summary := computeStats(...).
ComputeStats ==
    /\ stPc = "input"
    /\ stSummary' = computeStats(stResult, stArgs.cfg, stArgs.objectSize,
                                 stArgs.runNumber, stArgs.concurrency)
    /\ stPc' = "done"
    /\ UNCHANGED <<notStats, stResult, stArgs>>

StatsNext == ComputeStats

StatsSpec == StatsInit /\ [][StatsNext]_vars

\* --------------------------------------- computeAggregate, applied

\* The per-run throughputs the summaries carry.
ThroughputSamples ==
    {FZero, Float64(1), Float64(2), Float64(2 ^ FloatBits - 2),
     Float64(2 ^ FloatBits - 1), FDivPow2(Float64(2 ^ FloatBits - 3), 3)}

\* A run summary with the given MB/s throughput.
SummaryWith(run, mb) ==
    [RunNumber |-> run, ObjectSize |-> 1, TotalBytes |-> 1, ChunkCount |-> 1,
     ChunkSize |-> 1, Concurrency |-> 1, TotalTime |-> 1, TTFB |-> 1,
     ThroughputMB |-> mb, ThroughputGB |-> FDivPow2(mb, 10),
     ChunkLatency |-> [Min |-> 1, Max |-> 1, Mean |-> 1, P50 |-> 1,
                       P95 |-> 1, P99 |-> 1]]

AggInit ==
    /\ DispatchIdle
    /\ FetchIdle
    /\ PlanIdle
    /\ StatsIdle
    /\ SessionIdle
    /\ CompareIdle
    /\ RunIdle
    /\ ConfigIdle
    /\ ReporterIdle
    /\ \E n \in 0..MaxAggRuns :
          \E mbs \in [1..n -> ThroughputSamples] :
             agSummaries = [i \in 1..n |-> SummaryWith(i, mbs[i])]
    /\ agAggregate = <<>>
    /\ agPc = "input"

\* main.go line 131: agg := computeAggregate(runSummaries).
ComputeAggregate ==
    /\ agPc = "input"
    /\ agAggregate' = computeAggregate(agSummaries)
    /\ agPc' = "done"
    /\ UNCHANGED <<notAgg, agSummaries>>

AggNext == ComputeAggregate

AggSpec == AggInit /\ [][AggNext]_vars

\* ------------------------------------------------------------------ main

\* resp.ContentLength == nil.
NoLength == -1

\* What HeadObject can answer: an error, or a response with or without a
\* content length.
HeadResponses ==
    {[err |-> TRUE, ContentLength |-> NoLength]}
    \cup {[err |-> FALSE, ContentLength |-> c] : c \in {NoLength} \cup 0..MaxObjectSize}

\* A size lookup that takes a missing content length for an empty object.
getObjectSizeLenient(resp) ==
    IF resp.err THEN [size |-> 0, err |-> "HeadObject failed"]
    ELSE IF resp.ContentLength = NoLength THEN [size |-> 0, err |-> "nil"]
    ELSE [size |-> resp.ContentLength, err |-> "nil"]

\* part_000 lines 60-72.
getObjectSize(resp) ==
    IF resp.err THEN [size |-> 0, err |-> "HeadObject failed"]
    ELSE IF resp.ContentLength = NoLength
         THEN [size |-> 0, err |-> "HeadObject returned nil ContentLength"]
    ELSE [size |-> resp.ContentLength, err |-> "nil"]

\* The --concurrency lists parseConfig lets through: non-empty, every value
\* at least 1.
ConcurrencyLists ==
    UNION {[1..k -> 1..MaxConcurrency] : k \in 1..MaxLevels}

\* The configurations parseConfig lets through.
Configs ==
    [ConcurrencyList : ConcurrencyLists, Runs : 1..MaxRuns,
     ChunkSize : 1..MaxChunkSize, JSONOutput : BOOLEAN,
     DiscardOutput : BOOLEAN]

SessionInit ==
    /\ DispatchIdle
    /\ FetchIdle
    /\ PlanIdle
    /\ StatsIdle
    /\ AggIdle
    /\ CompareIdle
    /\ RunIdle
    /\ ConfigIdle
    /\ ReporterIdle
    /\ seCfg \in Configs
    /\ sePc = "size"
    /\ seHead = <<>>
    /\ seObjectSize = 0
    /\ seChunks = <<>>
    /\ seOutFile = FALSE
    /\ seSweeps = <<>>
    /\ seLevel = 0
    /\ seRun = 0
    /\ seRunSummaries = <<>>
    /\ seOutcome = NoReturn
    /\ sePlanned = 0
    /\ seDispatched = <<>>
    /\ seFailures = <<>>
    /\ seEmitted = <<>>

\* Lines 34-38: the size lookup; an error ends the process (log.Fatalf).
SizeLookup ==
    /\ sePc = "size"
    /\ \E resp \in HeadResponses :
          /\ seHead' = resp
          /\ IF getObjectSize(resp).err # "nil"
             THEN sePc' = "aborted" /\ UNCHANGED seObjectSize
             ELSE /\ sePc' = "plan"
                  /\ seObjectSize' = getObjectSize(resp).size
    /\ UNCHANGED <<notSession, seCfg, seChunks, seOutFile, seSweeps, seLevel,
                   seRun, seRunSummaries, seOutcome, sePlanned, seDispatched,
                   seFailures, seEmitted>>

\* Line 40: chunks := planChunks(objectSize, cfg.ChunkSize).
Plan ==
    /\ sePc = "plan"
    /\ seChunks' = planChunks(seObjectSize, seCfg.ChunkSize)
    /\ sePlanned' = sePlanned + 1
    /\ sePc' = "create"
    /\ UNCHANGED <<notSession, seCfg, seHead, seObjectSize, seOutFile,
                   seSweeps, seLevel, seRun, seRunSummaries, seOutcome,
                   seDispatched, seFailures, seEmitted>>

\* Lines 57-69: the output file is created when one is written (os.Create
\* may fail, which ends the process); the loop over the list begins.
CreateOutput ==
    /\ sePc = "create"
    /\ IF seCfg.DiscardOutput
       THEN sePc' = "level" /\ seLevel' = 1 /\ UNCHANGED seOutFile
       ELSE \/ sePc' = "aborted" /\ UNCHANGED <<seOutFile, seLevel>>
            \/ sePc' = "level" /\ seLevel' = 1 /\ seOutFile' = TRUE
    /\ UNCHANGED <<notSession, seCfg, seHead, seObjectSize, seChunks,
                   seSweeps, seRun, seRunSummaries, seOutcome, sePlanned,
                   seDispatched, seFailures, seEmitted>>

\* The summaries of the levels before carried into the next level.
RunSummariesKept == seRunSummaries

\* Line 80: var runSummaries []RunSummary, inside the loop over the list.
RunSummariesDeclared == <<>>

\* Lines 71-82: the next concurrency value of the list.
BeginLevel ==
    /\ sePc = "level"
    /\ seLevel <= Len(seCfg.ConcurrencyList)
    /\ seRunSummaries' = RunSummariesDeclared
    /\ seRun' = 1
    /\ sePc' = "run"
    /\ UNCHANGED <<notSession, seCfg, seHead, seObjectSize, seChunks,
                   seOutFile, seSweeps, seLevel, seOutcome, sePlanned,
                   seDispatched, seFailures, seEmitted>>

\* The table of a dispatch whose every chunk was fetched whole.
FetchedTable(cs) ==
    [i \in 0..(Len(cs) - 1) |-> Fetched(cs[i + 1], cs[i + 1].Size, 1, 1)]

\* What downloadObject can return for the chunks: the full table, or the
\* error of a chunk whose request or whose body read failed.
DispatchOutcomes(cs) ==
    LET ttfb == IF Len(cs) = 0 THEN 0 ELSE 1
    IN  {ReturnValue(FetchedTable(cs), 1, ttfb)}
        \cup {ReturnValue([FetchedTable(cs) EXCEPT
                              ![i] = RequestFailed(cs[i + 1])], 1, ttfb) :
                 i \in 0..(Len(cs) - 1)}
        \cup {ReturnValue([FetchedTable(cs) EXCEPT
                              ![i] = ReadFailed(cs[i + 1], 1)], 1, ttfb) :
                 i \in 0..(Len(cs) - 1)}

\* Lines 82-103: the next run: buffers, progress reset, downloadObject.
Dispatch ==
    /\ sePc = "run"
    /\ seRun <= seCfg.Runs
    /\ \E outcome \in DispatchOutcomes(seChunks) :
          /\ seOutcome' = outcome
          /\ seFailures' = IF outcome.err # NilErr
                           THEN Append(seFailures, <<seLevel, seRun>>)
                           ELSE seFailures
    /\ seDispatched' = Append(seDispatched, <<seLevel, seRun>>)
    /\ sePc' = "check"
    /\ UNCHANGED <<notSession, seCfg, seHead, seObjectSize, seChunks,
                   seOutFile, seSweeps, seLevel, seRun, seRunSummaries,
                   sePlanned, seEmitted>>

\* A failed dispatch taken for a good one.
DispatchFailedIgnored(outcome) == FALSE

\* Line 105: if err != nil.
DispatchFailed(outcome) == outcome.err # NilErr

\* Lines 105-110: log.Fatalf on an error, else the summary of the run.
Summarise ==
    /\ sePc = "check"
    /\ IF DispatchFailed(seOutcome)
       THEN sePc' = "aborted" /\ UNCHANGED seRunSummaries
       ELSE /\ seRunSummaries' =
                  Append(seRunSummaries,
                         computeStats(seOutcome.result, seCfg, seObjectSize,
                                      seRun,
                                      seCfg.ConcurrencyList[seLevel]))
            /\ sePc' = "flush"
    /\ UNCHANGED <<notSession, seCfg, seHead, seObjectSize, seChunks,
                   seOutFile, seSweeps, seLevel, seRun, seOutcome, sePlanned,
                   seDispatched, seFailures, seEmitted>>

\* What a printed report is remembered by: its kind and the runs it covers.
Report(kind, runs) == [kind |-> kind, runs |-> runs]

\* The runs of a level's summaries, as <<level, run number>>.
RunsOf(level, summaries) ==
    {<<level, summaries[i].RunNumber>> : i \in 1..Len(summaries)}

\* The runs of the sweeps.
RunsOfSweeps(sweeps) ==
    UNION {RunsOf(k, sweeps[k].Summaries) : k \in 1..Len(sweeps)}

\* Lines 112-128: the buffers go to the output file (a failed Write or Seek
\* ends the process), the run summary is printed unless --json.
Flush ==
    /\ sePc = "flush"
    /\ \/ /\ seOutFile
          /\ sePc' = "aborted"
          /\ UNCHANGED <<seRun, seEmitted>>
       \/ /\ sePc' = "run"
          /\ seRun' = seRun + 1
          /\ seEmitted' =
                IF seCfg.JSONOutput THEN seEmitted
                ELSE Append(seEmitted,
                            Report("run", {<<seLevel, seRunSummaries[
                                Len(seRunSummaries)].RunNumber>>}))
    /\ UNCHANGED <<notSession, seCfg, seHead, seObjectSize, seChunks,
                   seOutFile, seSweeps, seLevel, seRunSummaries, seOutcome,
                   sePlanned, seDispatched, seFailures>>

\* Lines 82, 131-140: the runs of the level are over: its sweep is appended
\* and, unless --json or a single run, its aggregate printed.
EndLevel ==
    /\ sePc = "run"
    /\ seRun > seCfg.Runs
    /\ seSweeps' =
          Append(seSweeps,
                 [Concurrency |-> seCfg.ConcurrencyList[seLevel],
                  Summaries   |-> seRunSummaries,
                  Aggregate   |-> computeAggregate(seRunSummaries)])
    /\ seEmitted' =
          IF ~seCfg.JSONOutput /\ seCfg.Runs > 1
          THEN Append(seEmitted,
                      Report("aggregate", RunsOf(seLevel, seRunSummaries)))
          ELSE seEmitted
    /\ seLevel' = seLevel + 1
    /\ sePc' = "level"
    /\ UNCHANGED <<notSession, seCfg, seHead, seObjectSize, seChunks,
                   seOutFile, seRun, seRunSummaries, seOutcome, sePlanned,
                   seDispatched, seFailures>>

\* Lines 71, 143-147: the list is over: the JSON document, or the comparison
\* report of a list of several values; main returns.
FinalReport ==
    /\ sePc = "level"
    /\ seLevel > Len(seCfg.ConcurrencyList)
    /\ seEmitted' =
          IF seCfg.JSONOutput
          THEN Append(seEmitted, Report("json", RunsOfSweeps(seSweeps)))
          ELSE IF Len(seCfg.ConcurrencyList) > 1
          THEN Append(seEmitted,
                      Report("comparison", RunsOfSweeps(seSweeps)))
          ELSE seEmitted
    /\ sePc' = "exited"
    /\ UNCHANGED <<notSession, seCfg, seHead, seObjectSize, seChunks,
                   seOutFile, seSweeps, seLevel, seRun, seRunSummaries,
                   seOutcome, sePlanned, seDispatched, seFailures>>

SessionNext ==
    \/ SizeLookup
    \/ Plan
    \/ CreateOutput
    \/ BeginLevel
    \/ Dispatch
    \/ Summarise
    \/ Flush
    \/ EndLevel
    \/ FinalReport

SessionSpec == SessionInit /\ [][SessionNext]_vars

\* ------------------------------------------------- printComparisonReport

\* A scan that also takes a sweep whose mean equals the best so far.
BetterOrEqual(mean, bestMean) == ~FLess(mean, bestMean)

\* Line 129: sw.Aggregate.MeanThroughputMB > bestMean.
Better(mean, bestMean) == FLess(bestMean, mean)

\* Lines 126-133: bestMean and bestIdx after the loop over the first k
\* sweeps; indices count from 0 as the code's do.
RECURSIVE BestAfter(_, _)
BestAfter(sweeps, k) ==
    IF k = 0 THEN [bestMean |-> FZero, bestIdx |-> 0]
    ELSE LET prev == BestAfter(sweeps, k - 1)
             mean == sweeps[k].Aggregate.MeanThroughputMB
         IN  IF Better(mean, prev.bestMean)
             THEN [bestMean |-> mean, bestIdx |-> k - 1]
             ELSE prev

\* Lines 126-133: the index the report marks.
bestIdx(sweeps) == BestAfter(sweeps, Len(sweeps)).bestIdx

\* Aggregate mean throughputs the sweeps are drawn from: zero, and the three
\* values 100, 240 and 250 MB/s.
MeanSamples == {FZero, Float64(100), Float64(240), Float64(250)}

\* A sweep of one run with the given aggregate mean.
SweepWith(conc, mean) ==
    [Concurrency |-> conc,
     Summaries   |-> <<SummaryWith(1, mean)>>,
     Aggregate   |-> computeAggregate(<<SummaryWith(1, mean)>>)]

CompareInit ==
    /\ DispatchIdle
    /\ FetchIdle
    /\ PlanIdle
    /\ StatsIdle
    /\ AggIdle
    /\ SessionIdle
    /\ RunIdle
    /\ ConfigIdle
    /\ ReporterIdle
    /\ \E n \in 1..MaxSweeps :
          \E means \in [1..n -> MeanSamples] :
             cmpSweeps = [i \in 1..n |-> SweepWith(i, means[i])]
    /\ cmpBestIdx = 0
    /\ cmpPc = "input"

\* Lines 120-133: printComparisonReport(sweeps) up to the end of the scan.
PrintComparisonReport ==
    /\ cmpPc = "input"
    /\ cmpBestIdx' = bestIdx(cmpSweeps)
    /\ cmpPc' = "done"
    /\ UNCHANGED <<notCompare, cmpSweeps>>

CompareNext == PrintComparisonReport

CompareSpec == CompareInit /\ [][CompareNext]_vars

\* ------------------------------------------- the run loop, read by read

\* A counter that keeps the size of the last read only.
StoreLast(counter, n) == n

\* part_000 line 29: cr.counter.Add(int64(n)), one atomic step.
AtomicAdd(counter, n) == counter + n

\* A nil []byte: a slot of outBufs no fetch has assigned.
NilBuf == <<-1>>

\* The bytes outFile.Write(buf) writes.
BytesOf(buf) == IF buf = NilBuf THEN <<>> ELSE buf

\* main.go line 115: outFile.Write(buf) at the file's offset.
FileWrite(f, buf) ==
    LET b   == BytesOf(buf)
        end == f.off + Len(b)
        len == IF end > Len(f.bytes) THEN end ELSE Len(f.bytes)
    IN  [bytes |-> [i \in 1..len |->
                       IF i > f.off /\ i <= end THEN b[i - f.off]
                                                ELSE f.bytes[i]],
         off   |-> end]

\* main.go lines 114-118: the file after the buffers from index i on are
\* written, in index order.
RECURSIVE FlushFrom(_, _, _)
FlushFrom(f, bufs, i) ==
    IF i \notin DOMAIN bufs THEN f
    ELSE FlushFrom(FileWrite(f, bufs[i]), bufs, i + 1)

\* main.go lines 119-123: outFile.Seek(0, io.SeekStart) unless the run is
\* the last of its concurrency level.
SeekStart(f, run, runs) == IF run < runs THEN [f EXCEPT !.off = 0] ELSE f

\* main.go lines 85-87: outBufs = make([][]byte, len(chunks)) in write mode,
\* nil otherwise.
MakeOutBufs(cfg, cs) ==
    IF cfg.DiscardOutput THEN <<>>
    ELSE [i \in 0..(Len(cs) - 1) |-> NilBuf]

\* The response bodies of a ranged request: the whole range and a clean end
\* of stream, or some bytes short of it and a transport error.
Bodies(chunk) ==
    {[left |-> chunk.Size, end |-> "EOF"]}
    \cup {[left |-> k, end |-> "reset"] : k \in 0..(chunk.Size - 1)}

\* A worker of the run loop: its position, the chunk it fetches, the bytes
\* read so far and what is left of the response body.
Reader(p, c, n, b) == [pc |-> p, chunk |-> c, n |-> n, body |-> b]

NoBody == [left |-> 0, end |-> "EOF"]

IdleReader == Reader("recv", NoChunk, 0, NoBody)

\* part_000 lines 130-131: the pool of k workers just started.
Readers(k) == IF k = 0 THEN EmptyBag ELSE [s \in {IdleReader} |-> k]

RnStep(s, t) == (rnPool (-) SetToBag({s})) (+) SetToBag({t})

\* The configurations of the run loop: parseConfig's, with the output mode.
RunConfigs ==
    [ConcurrencyList : ConcurrencyLists, Runs : 1..MaxRuns,
     DiscardOutput : BOOLEAN]

RunInit ==
    /\ DispatchIdle
    /\ FetchIdle
    /\ PlanIdle
    /\ StatsIdle
    /\ AggIdle
    /\ SessionIdle
    /\ CompareIdle
    /\ ConfigIdle
    /\ ReporterIdle
    /\ rnCfg \in RunConfigs
    /\ \E objectSize \in 0..MaxObjectSize, chunkSize \in 1..MaxChunkSize :
          rnChunks = planChunks(objectSize, chunkSize)
    /\ rnPc = "run"
    /\ rnLevel = 1
    /\ rnRun = 1
    /\ rnOutBufs = <<>>
    /\ rnProgress = 0
    /\ rnJobs = <<>>
    /\ rnPool = EmptyBag
    /\ rnResults = <<>>
    /\ rnRet = NoReturn
    /\ rnFile = EmptyFile
    /\ rnRead = 0

\* main.go lines 82-99, part_000 lines 108-131: a run begins: the buffer
\* table is allocated, progress reset, and downloadObject fills the queue,
\* allocates the result table and starts its workers.
RnBeginRun ==
    /\ rnPc = "run"
    /\ rnRun <= rnCfg.Runs
    /\ rnOutBufs' = MakeOutBufs(rnCfg, rnChunks)
    /\ rnProgress' = 0
    /\ rnRead' = 0
    /\ rnJobs' = rnChunks
    /\ rnResults' = [i \in 0..(Len(rnChunks) - 1) |-> ZeroChunkResult]
    /\ rnPool' = Readers(WorkerCount(rnCfg.ConcurrencyList[rnLevel],
                                     Len(rnChunks)))
    /\ rnRet' = NoReturn
    /\ rnPc' = "dispatch"
    /\ UNCHANGED <<notRun, rnCfg, rnChunks, rnLevel, rnRun, rnFile>>

\* part_000 line 134: a worker takes the next descriptor, or leaves the
\* loop when the closed queue is empty (wg.Done).
RnRecv(s) ==
    /\ s.pc = "recv"
    /\ IF rnJobs = <<>>
       THEN /\ rnPool' = rnPool (-) SetToBag({s})
            /\ UNCHANGED rnJobs
       ELSE /\ rnPool' = RnStep(s, Reader("request", Head(rnJobs), 0, NoBody))
            /\ rnJobs' = Tail(rnJobs)
    /\ UNCHANGED <<notRun, rnCfg, rnChunks, rnPc, rnLevel, rnRun, rnOutBufs,
                   rnProgress, rnResults, rnRet, rnFile, rnRead>>

\* part_000 lines 177-203, 137: GetObject returns an error, which the worker
\* stores as the chunk's outcome, or a response body.
RnGetObject(s) ==
    /\ s.pc = "request"
    /\ \/ /\ rnResults' =
                [rnResults EXCEPT ![s.chunk.Index] = RequestFailed(s.chunk)]
          /\ rnPool' = RnStep(s, IdleReader)
       \/ /\ \E b \in Bodies(s.chunk) :
                rnPool' = RnStep(s, Reader("read", s.chunk, 0, b))
          /\ UNCHANGED rnResults
    /\ UNCHANGED <<notRun, rnCfg, rnChunks, rnPc, rnLevel, rnRun, rnOutBufs,
                   rnProgress, rnJobs, rnRet, rnFile, rnRead>>

\* part_000 lines 26-32, 210, 223: one Read of the counting reader that
\* delivers k bytes and adds them to progress.
RnRead(s) ==
    /\ s.pc = "read"
    /\ s.body.left > 0
    /\ \E k \in 1..s.body.left :
          /\ rnPool' = RnStep(s, [s EXCEPT !.n = @ + k,
                                           !.body.left = @ - k])
          /\ rnProgress' = AtomicAdd(rnProgress, k)
          /\ rnRead' = rnRead + k
    /\ UNCHANGED <<notRun, rnCfg, rnChunks, rnPc, rnLevel, rnRun, rnOutBufs,
                   rnJobs, rnResults, rnRet, rnFile>>

\* The read error downloadChunk returns for the worker's body, "nil" when
\* it returns none.
RnReadErr(s) ==
    IF rnCfg.DiscardOutput THEN CopyErr(s.body.end)
    ELSE IF Tolerated(ReadFullErr(s.n, s.chunk.Size, s.body.end)) THEN "nil"
    ELSE ReadFullErr(s.n, s.chunk.Size, s.body.end)

\* part_000 lines 212-218: the buffer table after a failed read: the return
\* comes before the assignment of line 220.
SlotOnFailure(bufs, s) == bufs

\* part_000 lines 205-241, 137: the body has ended: the read error is
\* returned, or outBufs[chunk.Index] = buf[:n] is assigned in write mode and
\* the outcome returned; the worker stores what it got in results.
RnFinish(s) ==
    /\ s.pc = "read"
    /\ s.body.left = 0
    /\ IF RnReadErr(s) # "nil"
       THEN /\ rnResults' =
                  [rnResults EXCEPT ![s.chunk.Index] = ReadFailed(s.chunk, 1)]
            /\ rnOutBufs' = SlotOnFailure(rnOutBufs, s)
       ELSE /\ rnResults' =
                  [rnResults EXCEPT
                      ![s.chunk.Index] = Fetched(s.chunk, s.n, 1, 1)]
            /\ rnOutBufs' =
                  IF rnCfg.DiscardOutput THEN rnOutBufs
                  ELSE [rnOutBufs EXCEPT
                           ![s.chunk.Index] = Captured(s.chunk, s.n)]
    /\ rnPool' = RnStep(s, IdleReader)
    /\ UNCHANGED <<notRun, rnCfg, rnChunks, rnPc, rnLevel, rnRun, rnProgress,
                   rnJobs, rnRet, rnFile, rnRead>>

RnWorker(s) ==
    \/ RnRecv(s)
    \/ RnGetObject(s)
    \/ RnRead(s)
    \/ RnFinish(s)

\* part_000 lines 151-164: wg.Wait() returns when every worker has left its
\* loop; the scan; downloadObject returns.
RnJoin ==
    /\ rnPc = "dispatch"
    /\ rnPool = EmptyBag
    /\ rnRet' = ReturnValue(rnResults, 1, IF Len(rnChunks) = 0 THEN 0 ELSE 1)
    /\ rnPc' = "returned"
    /\ UNCHANGED <<notRun, rnCfg, rnChunks, rnLevel, rnRun, rnOutBufs,
                   rnProgress, rnJobs, rnPool, rnResults, rnFile, rnRead>>

\* main.go lines 105-107: a failed dispatch ends the process (log.Fatalf).
RnCheck ==
    /\ rnPc = "returned"
    /\ rnPc' = IF rnRet.err # NilErr THEN "fatal" ELSE "flush"
    /\ UNCHANGED <<notRun, rnCfg, rnChunks, rnLevel, rnRun, rnOutBufs,
                   rnProgress, rnJobs, rnPool, rnResults, rnRet, rnFile,
                   rnRead>>

\* main.go lines 113-124, 82: the buffers are written in index order and the
\* file rewound when another run of the level follows; a failed Write or
\* Seek ends the process. With no output file nothing is written.
RnFlush ==
    /\ rnPc = "flush"
    /\ \/ /\ rnFile' =
                IF rnCfg.DiscardOutput THEN rnFile
                ELSE SeekStart(FlushFrom(rnFile, rnOutBufs, 0), rnRun,
                               rnCfg.Runs)
          /\ rnRun' = rnRun + 1
          /\ rnPc' = "run"
       \/ /\ ~rnCfg.DiscardOutput
          /\ \E i \in 0..Len(rnChunks) :
                rnFile' = FlushFrom(rnFile,
                                    [j \in 0..(i - 1) |-> rnOutBufs[j]], 0)
          /\ rnPc' = "fatal"
          /\ UNCHANGED rnRun
    /\ UNCHANGED <<notRun, rnCfg, rnChunks, rnLevel, rnOutBufs, rnProgress,
                   rnJobs, rnPool, rnResults, rnRet, rnRead>>

\* main.go lines 71, 82, 131-147: the runs of the level are over: the next
\* level begins, or main returns.
RnEndLevel ==
    /\ rnPc = "run"
    /\ rnRun > rnCfg.Runs
    /\ IF rnLevel < Len(rnCfg.ConcurrencyList)
       THEN /\ rnLevel' = rnLevel + 1
            /\ rnRun' = 1
            /\ UNCHANGED rnPc
       ELSE /\ rnPc' = "done"
            /\ UNCHANGED <<rnLevel, rnRun>>
    /\ UNCHANGED <<notRun, rnCfg, rnChunks, rnOutBufs, rnProgress, rnJobs,
                   rnPool, rnResults, rnRet, rnFile, rnRead>>

RunNext ==
    \/ RnBeginRun
    \/ \E s \in BagToSet(rnPool) : RnWorker(s)
    \/ RnJoin
    \/ RnCheck
    \/ RnFlush
    \/ RnEndLevel

RunSpec == RunInit /\ [][RunNext]_vars

\* ------------------------------------------------------------ parseConfig

\* Strings are sequences of one-character strings.
Digits == {"0", "1", "2", "3", "4", "5", "6", "7", "8", "9"}

DigitValue(c) ==
    CASE c = "0" -> 0 [] c = "1" -> 1 [] c = "2" -> 2 [] c = "3" -> 3
      [] c = "4" -> 4 [] c = "5" -> 5 [] c = "6" -> 6 [] c = "7" -> 7
      [] c = "8" -> 8 [] c = "9" -> 9

\* config.go line 58: strings.Split(s, ","): the pieces between the commas,
\* one more than there are commas.
RECURSIVE Split(_)
Split(str) ==
    IF str = <<>> THEN << <<>> >>
    ELSE LET rest == Split(Tail(str))
         IN  IF Head(str) = "," THEN << <<>> >> \o rest
             ELSE << <<Head(str)>> \o rest[1] >> \o Tail(rest)

RECURSIVE TrimLeft(_)
TrimLeft(str) ==
    IF str # <<>> /\ Head(str) = " " THEN TrimLeft(Tail(str)) ELSE str

RECURSIVE TrimRight(_)
TrimRight(str) ==
    IF str # <<>> /\ str[Len(str)] = " "
    THEN TrimRight(SubSeq(str, 1, Len(str) - 1))
    ELSE str

\* config.go line 59: strings.TrimSpace.
TrimSpace(str) == TrimRight(TrimLeft(str))

\* The value of a string of decimal digits.
RECURSIVE Decimal(_)
Decimal(str) ==
    IF str = <<>> THEN 0
    ELSE 10 * Decimal(SubSeq(str, 1, Len(str) - 1))
         + DigitValue(str[Len(str)])

\* config.go line 63: strconv.Atoi: an optional sign, then one digit or
\* more; anything else is an error.
Atoi(str) ==
    LET signed == str # <<>> /\ Head(str) \in {"+", "-"}
        digits == IF signed THEN Tail(str) ELSE str
    IN  IF digits = <<>> \/ \E i \in 1..Len(digits) : digits[i] \notin Digits
        THEN [n |-> 0, ok |-> FALSE]
        ELSE [n  |-> IF signed /\ Head(str) = "-" THEN 0 - Decimal(digits)
                                                  ELSE Decimal(digits),
              ok |-> TRUE]

\* A test of the list values that lets 0 through.
InvalidValueBelowZero(a) == ~a.ok \/ a.n < 0

\* config.go line 64: err != nil || n < 1.
InvalidValue(a) == ~a.ok \/ a.n < 1

\* config.go lines 58-68: the loop over the pieces from the k-th on: the list
\* appended to, or the error of the first invalid piece.
RECURSIVE ConcurrencyFrom(_, _, _)
ConcurrencyFrom(parts, k, list) ==
    IF k > Len(parts) THEN [list |-> list, err |-> "nil"]
    ELSE LET part == TrimSpace(parts[k])
         IN  IF part = <<>> THEN ConcurrencyFrom(parts, k + 1, list)
             ELSE IF InvalidValue(Atoi(part))
                  THEN [list |-> list, err |-> "--concurrency: invalid value"]
             ELSE ConcurrencyFrom(parts, k + 1, Append(list, Atoi(part).n))

\* config.go lines 108-165: parseByteSize of a --chunk-size argument: empty,
\* not a number, or a number (counted in halves, so that a fraction is among
\* the values) times the multiplier of its suffix. A product outside int64
\* converts to a value the build chooses.
parseByteSize(raw) ==
    IF raw.kind = "empty" THEN [size |-> 0, err |-> "empty value"]
    ELSE IF raw.kind = "junk" THEN [size |-> 0, err |-> "cannot parse number"]
    ELSE IF raw.halves <= 0
         THEN [size |-> 0, err |-> "value must be positive"]
    ELSE IF (raw.halves * raw.multiplier) \div 2 > MaxInt64
         THEN [size |-> raw.wraps, err |-> "nil"]
    ELSE [size |-> (raw.halves * raw.multiplier) \div 2, err |-> "nil"]

\* parseConfig's nil *Config.
NoConfig == <<>>

\* config.go lines 31-91: parseConfig on the parsed flags.
parseConfig(flags) ==
    LET conc == ConcurrencyFrom(Split(flags.rawConcurrency), 1, <<>>)
        size == parseByteSize(flags.rawChunkSize)
        fail(msg) == [cfg |-> NoConfig, err |-> msg]
    IN  IF flags.Bucket = "" THEN fail("--bucket is required")
        ELSE IF flags.Key = "" THEN fail("--key is required")
        ELSE IF conc.err # "nil" THEN fail(conc.err)
        ELSE IF Len(conc.list) = 0
             THEN fail("--concurrency must have at least one value")
        ELSE IF flags.Runs < 1 THEN fail("--runs must be >= 1")
        ELSE IF flags.DiscardOutput /\ flags.OutputFile # ""
             THEN fail("--discard and --output are mutually exclusive")
        ELSE IF size.err # "nil" THEN fail("--chunk-size: " \o size.err)
        ELSE IF size.size < 1 THEN fail("--chunk-size must be > 0")
        ELSE [cfg |-> [ConcurrencyList |-> conc.list,
                       Runs            |-> flags.Runs,
                       DiscardOutput   |->
                          IF ~flags.DiscardOutput /\ flags.OutputFile = ""
                          THEN TRUE ELSE flags.DiscardOutput,
                       OutputFile      |-> flags.OutputFile,
                       ChunkSize       |-> size.size],
              err |-> "nil"]

\* The characters --concurrency arguments are made of.
RawChars == {",", " ", "0", "1", "-"}

RawConcurrencies == UNION {[1..k -> RawChars] : k \in 0..MaxRawLen}

\* The --chunk-size arguments: empty, unparsable, -1, 0, a half, 1 and the
\* largest chunk size, as bytes, and a number too large for int64 with each
\* value its conversion can give.
RawChunkSizes ==
    {[kind |-> k, halves |-> 0, multiplier |-> 1, wraps |-> 0] :
        k \in {"empty", "junk"}}
    \cup {[kind |-> "number", halves |-> h, multiplier |-> 1, wraps |-> 0] :
             h \in {-2, 0, 1, 2, 2 * MaxChunkSize}}
    \cup {[kind |-> "number", halves |-> 2 * MaxInt64, multiplier |-> 2,
           wraps |-> w] : w \in {MinInt64, 0, MaxInt64}}

\* The command lines drawn: bucket and key given or not, an output path or
\* none.
FlagSets ==
    [Bucket : {"", "b"}, Key : {"k"}, rawConcurrency : RawConcurrencies,
     Runs : {-1, 0, 1, MaxRuns}, DiscardOutput : BOOLEAN,
     OutputFile : {"", "out.bin"}, rawChunkSize : RawChunkSizes]
    \cup [Bucket : {"b"}, Key : {""}, rawConcurrency : {<<"1">>},
          Runs : {1}, DiscardOutput : BOOLEAN, OutputFile : {""},
          rawChunkSize : RawChunkSizes]

ConfigInit ==
    /\ DispatchIdle
    /\ FetchIdle
    /\ PlanIdle
    /\ StatsIdle
    /\ AggIdle
    /\ SessionIdle
    /\ CompareIdle
    /\ RunIdle
    /\ ReporterIdle
    /\ cfFlags \in FlagSets
    /\ cfPc = "flags"
    /\ cfOut = <<>>
    /\ cfClient = FALSE

\* main.go line 20: cfg, err := parseConfig().
ParseConfig ==
    /\ cfPc = "flags"
    /\ cfOut' = parseConfig(cfFlags)
    /\ cfPc' = "parsed"
    /\ UNCHANGED <<notConfig, cfFlags, cfClient>>

\* main.go lines 21-25: an error is printed with the usage and the process
\* exits with status 1.
ExitOnError ==
    /\ cfPc = "parsed"
    /\ cfOut.err # "nil"
    /\ cfPc' = "exit"
    /\ UNCHANGED <<notConfig, cfFlags, cfOut, cfClient>>

\* main.go lines 27-38: with a configuration main builds the S3 client and
\* sends its first request.
BuildClient ==
    /\ cfPc = "parsed"
    /\ cfOut.err = "nil"
    /\ cfClient' = TRUE
    /\ cfPc' = "client"
    /\ UNCHANGED <<notConfig, cfFlags, cfOut>>

ConfigNext ==
    \/ ParseConfig
    \/ ExitOnError
    \/ BuildClient

ConfigSpec == ConfigInit /\ [][ConfigNext]_vars

\* ------------------------------------------------- startProgressReporter

\* A run's reporter: the goroutine's position, whether done and stopped are
\* closed, and whether ticker.C (a channel of capacity 1) holds a tick.
NoReporter ==
    [pc |-> "none", done |-> FALSE, stopped |-> FALSE, tick |-> FALSE]

\* output.go lines 19-22: the channels are made and the goroutine started.
NewReporter ==
    [pc |-> "init", done |-> FALSE, stopped |-> FALSE, tick |-> FALSE]

\* The output after a line is printed; a line printed again is kept once.
Printed(out, line) ==
    IF out # <<>> /\ out[Len(out)] = line THEN out ELSE Append(out, line)

\* A stop function that returns without the receive from stopped.
StopReturnsAtOnce(r) == TRUE

\* output.go line 70: <-stopped lets main through once stopped is closed.
StopMayReturn(r) == r.stopped

ReporterInit ==
    /\ DispatchIdle
    /\ FetchIdle
    /\ PlanIdle
    /\ StatsIdle
    /\ AggIdle
    /\ SessionIdle
    /\ CompareIdle
    /\ RunIdle
    /\ ConfigIdle
    /\ rpCfg \in [Runs : 1..MaxRuns, JSONOutput : BOOLEAN]
    /\ rpRun = 1
    /\ rpMain = "start"
    /\ rpErr = FALSE
    /\ rpReporters = [r \in 1..MaxRuns |-> NoReporter]
    /\ rpOut = <<>>

\* main.go lines 89-97, output.go lines 18-22, 68: unless --json, the run's
\* reporter is started and its stop function kept.
MnStart ==
    /\ rpMain = "start"
    /\ rpReporters' =
          IF rpCfg.JSONOutput THEN rpReporters
          ELSE [rpReporters EXCEPT ![rpRun] = NewReporter]
    /\ rpMain' = "dispatch"
    /\ UNCHANGED <<notReporter, rpCfg, rpRun, rpErr, rpOut>>

\* main.go line 99: downloadObject returns, with or without an error.
MnDispatch ==
    /\ rpMain = "dispatch"
    /\ rpErr' \in BOOLEAN
    /\ rpMain' = "stop"
    /\ UNCHANGED <<notReporter, rpCfg, rpRun, rpReporters, rpOut>>

\* main.go lines 101-103, output.go line 69: stopProgress() is called when
\* there is one: close(done).
MnStop ==
    /\ rpMain = "stop"
    /\ IF rpCfg.JSONOutput
       THEN rpMain' = "check" /\ UNCHANGED rpReporters
       ELSE /\ rpReporters' = [rpReporters EXCEPT ![rpRun].done = TRUE]
            /\ rpMain' = "wait"
    /\ UNCHANGED <<notReporter, rpCfg, rpRun, rpErr, rpOut>>

\* output.go line 70: <-stopped; the stop function returns.
MnWait ==
    /\ rpMain = "wait"
    /\ StopMayReturn(rpReporters[rpRun])
    /\ rpMain' = "check"
    /\ UNCHANGED <<notReporter, rpCfg, rpRun, rpErr, rpReporters, rpOut>>

\* main.go lines 105-128, 82: a failed run ends the process with its error
\* line; otherwise the run summary is printed unless --json, and the next
\* run follows.
MnCheck ==
    /\ rpMain = "check"
    /\ IF rpErr
       THEN /\ rpOut' = Printed(rpOut, <<rpRun, "fatal">>)
            /\ rpMain' = "fatal"
            /\ UNCHANGED rpRun
       ELSE /\ rpOut' = IF rpCfg.JSONOutput THEN rpOut
                        ELSE Printed(rpOut, <<rpRun, "summary">>)
            /\ rpRun' = rpRun + 1
            /\ rpMain' = IF rpRun < rpCfg.Runs THEN "start" ELSE "done"
    /\ UNCHANGED <<notReporter, rpCfg, rpErr, rpReporters>>

\* output.go lines 23-30: the goroutine creates its ticker and reaches the
\* select.
RpInit(r) ==
    /\ rpReporters[r].pc = "init"
    /\ rpReporters' = [rpReporters EXCEPT ![r].pc = "select"]
    /\ UNCHANGED <<notReporter, rpCfg, rpRun, rpMain, rpErr, rpOut>>

\* output.go line 25: the ticker's period has passed: a tick is put into
\* ticker.C unless one is waiting there. The ticker runs from its creation
\* to the deferred ticker.Stop().
Tick(r) ==
    /\ rpReporters[r].pc \in {"select", "print", "return"}
    /\ ~rpReporters[r].tick
    /\ rpReporters' = [rpReporters EXCEPT ![r].tick = TRUE]
    /\ UNCHANGED <<notReporter, rpCfg, rpRun, rpMain, rpErr, rpOut>>

\* output.go lines 57, 62: the select takes the tick.
RpSelectTick(r) ==
    /\ rpReporters[r].pc = "select"
    /\ rpReporters[r].tick
    /\ rpReporters' = [rpReporters EXCEPT ![r].tick = FALSE, ![r].pc = "print"]
    /\ UNCHANGED <<notReporter, rpCfg, rpRun, rpMain, rpErr, rpOut>>

\* output.go lines 32-54, 63: print(now): the progress line.
RpPrint(r) ==
    /\ rpReporters[r].pc = "print"
    /\ rpOut' = Printed(rpOut, <<r, "progress">>)
    /\ rpReporters' = [rpReporters EXCEPT ![r].pc = "select"]
    /\ UNCHANGED <<notReporter, rpCfg, rpRun, rpMain, rpErr>>

\* output.go lines 57-61: the select takes the closed done: the line is
\* cleared and the goroutine returns.
RpSelectDone(r) ==
    /\ rpReporters[r].pc = "select"
    /\ rpReporters[r].done
    /\ rpOut' = Printed(rpOut, <<r, "clear">>)
    /\ rpReporters' = [rpReporters EXCEPT ![r].pc = "return"]
    /\ UNCHANGED <<notReporter, rpCfg, rpRun, rpMain, rpErr>>

\* output.go lines 23, 26: the deferred calls: ticker.Stop(), close(stopped);
\* the goroutine is over.
RpExit(r) ==
    /\ rpReporters[r].pc = "return"
    /\ rpReporters' = [rpReporters EXCEPT ![r].pc = "exited",
                                          ![r].stopped = TRUE]
    /\ UNCHANGED <<notReporter, rpCfg, rpRun, rpMain, rpErr, rpOut>>

ReporterNext ==
    \/ MnStart
    \/ MnDispatch
    \/ MnStop
    \/ MnWait
    \/ MnCheck
    \/ \E r \in DOMAIN rpReporters :
          \/ RpInit(r)
          \/ Tick(r)
          \/ RpSelectTick(r)
          \/ RpPrint(r)
          \/ RpSelectDone(r)
          \/ RpExit(r)

ReporterSpec == ReporterInit /\ [][ReporterNext]_vars

\* A goroutine that can take a step takes one, main receives from a closed
\* channel, and a select with several ready cases chooses among them at
\* random, so a case that is ready again and again is chosen in the end.
FairReporterSpec ==
    /\ ReporterSpec
    /\ WF_vars(MnWait)
    /\ \A r \in 1..MaxRuns :
          /\ WF_vars(RpInit(r))
          /\ WF_vars(RpPrint(r))
          /\ WF_vars(RpExit(r))
          /\ SF_vars(RpSelectDone(r))

\* ------------------------------------------------------------- properties

N == Len(chunks)

Returned == ret.returned

Succeeded == ret.returned /\ ret.err = NilErr

Smaller(a, b) == IF a < b THEN a ELSE b

\* Goroutines inside downloadChunk.
InFlight == Count(LAMBDA s : s.pc \in {"fetch", "body"})

\* The failed chunks' indices.
FailedChunks == {e.chunk : e \in errs}

\* C1: downloadObject returns either an error with the zero DownloadResult
\* (some chunk fetch returned an error) or nil with all N outcomes (none
\* did); it never returns a partial result.
C1_AllOrNothing ==
    Returned =>
        /\ errs # {} => ret.err # NilErr /\ ret.result = ZeroDownloadResult
        /\ errs = {} =>
              /\ ret.err = NilErr
              /\ DOMAIN ret.result.Chunks = 0..(N - 1)
              /\ \A i \in 0..(N - 1) : ret.result.Chunks[i].Err = NilErr

\* Some chunks succeeded, another failed, and the call has returned.
C1_Witness ==
    Returned /\ errs # {} /\ Cardinality(errs) < N

\* C2: after a successful dispatch the result table has exactly N entries
\* and the entry at position i carries Index = i.
C2_IndexEqualsPosition ==
    Succeeded =>
        /\ DOMAIN ret.result.Chunks = 0..(N - 1)
        /\ \A i \in 0..(N - 1) : ret.result.Chunks[i].Index = i

\* A successful dispatch in which chunk 1 completed before chunk 0.
C2_Witness ==
    Succeeded /\ N >= 2 /\ firstCS = 1

\* C3: no descriptor is received twice, no two goroutines hold the same
\* descriptor, every slot is written at most once, and exactly once when
\* the call has returned.
C3_SingleWriter ==
    \A i \in DOMAIN writes :
        /\ recvs[i] <= 1
        /\ writes[i] <= 1
        /\ Count(LAMBDA s : s.chunk.Index = i) <= 1
        /\ Returned => writes[i] = 1

\* Two workers are about to write their slots at the same time.
C3_Witness ==
    Count(LAMBDA s : s.pc = "write") >= 2

\* C4: downloadChunk runs at most once per descriptor, and exactly once per
\* descriptor when the call has returned, whether or not a chunk failed.
C4_FetchedOnce ==
    \A i \in DOMAIN fetches :
        /\ fetches[i] <= 1
        /\ Returned => fetches[i] = 1

\* A single worker whose first chunk failed went on to the later chunks.
C4_Witness ==
    /\ Returned
    /\ concurrency = 1
    /\ N >= 2
    /\ firstFailed = 0
    /\ fetches[N - 1] = 1

\* C5: once wg.Wait() has returned (the scan, the read of firstTTFB and the
\* return come after it) every worker has exited, the queue is empty, every
\* slot is written and the mutex is free.
C5_JoinBeforeReturn ==
    mpc \in {"scan", "done"} =>
        /\ \A s \in Goroutines : s.pc = "exited"
        /\ BagCardinality(pool) = workers
        /\ wg = 0
        /\ jobs = <<>>
        /\ ~mu
        /\ \A i \in DOMAIN writes : writes[i] = 1

\* A dispatch of two workers has returned.
C5_Witness ==
    Returned /\ workers >= 2 /\ ret.result.TTFB > 0

\* C6: under fair scheduling every dispatch returns, and one over no
\* descriptors returns an empty success without starting a worker.
C6_Terminates ==
    /\ <>Returned
    /\ [](N = 0 =>
            /\ BagCardinality(pool) = 0
            /\ spawned = 0
            /\ Returned =>
                  ret.err = NilErr /\ DOMAIN ret.result.Chunks = {})

\* A dispatch with more concurrency than descriptors has returned.
C6_Witness ==
    Returned /\ N >= 1 /\ concurrency > N

\* C7: exactly min(concurrency, N) workers are started, and at most that
\* many fetches are in flight.
C7_WorkerClamp ==
    /\ spawned <= Smaller(concurrency, N)
    /\ BagCardinality(pool) = spawned
    /\ mpc \in {"wait", "scan", "done"} => spawned = Smaller(concurrency, N)
    /\ InFlight <= Smaller(concurrency, N)

\* Concurrency exceeds the descriptors and every worker is fetching.
C7_Witness ==
    /\ concurrency > N
    /\ N >= 1
    /\ InFlight = N

\* C8: the error returned is the error of the failed chunk with the
\* smallest index.
C8_SmallestIndexError ==
    Returned /\ errs # {} =>
        /\ ret.err \in errs
        /\ \A i \in FailedChunks : ret.err.chunk <= i

\* Two chunks failed, the one with the larger index first.
C8_Witness ==
    /\ Returned
    /\ Cardinality(errs) >= 2
    /\ firstFailed # ret.err.chunk

\* C9 as stated: the TTFB of a successful dispatch is the minimum TTFB of
\* its chunks.
C9_Original ==
    Succeeded /\ N >= 1 =>
        \A i \in 0..(N - 1) : ret.result.TTFB <= ret.result.Chunks[i].TTFB

\* C9 amended: the TTFB of a successful dispatch is the TTFB of the chunk
\* whose worker entered the critical section first; it is the TTFB of one of
\* the chunks and so at least their minimum.
C9_FirstFinisher ==
    Succeeded /\ N >= 1 =>
        /\ firstCS \in 0..(N - 1)
        /\ ret.result.TTFB = ret.result.Chunks[firstCS].TTFB
        /\ \E i \in 0..(N - 1) : ret.result.Chunks[i].TTFB <= ret.result.TTFB

\* A successful dispatch whose TTFB is not the smallest of its chunks'.
C9_Witness ==
    /\ Succeeded
    /\ \E i \in 0..(N - 1) : ret.result.Chunks[i].TTFB < ret.result.TTFB

\* The cell never changes once set.
WriteOnce == [][ttfbSet => ttfbSet' /\ firstTTFB' = firstTTFB]_vars

\* The cell holds the TTFB of the successful chunk that entered the
\* critical section first; the critical section holds one worker at most.
CellOfFirstEntrant ==
    /\ Count(LAMBDA s : s.pc = "cs") = (IF mu THEN 1 ELSE 0)
    /\ ~ttfbSet => firstTTFB = 0
    /\ firstCS # -1 /\ ~mu => ttfbSet
    /\ ttfbSet =>
          /\ firstCS \in DOMAIN results
          /\ results[firstCS].Err = NilErr
          /\ firstTTFB = results[firstCS].TTFB

\* C10: the TTFB cell is written once, under the mutex, by the first worker
\* entering the critical section with a successful outcome, and is never
\* changed afterwards; failed outcomes never set it.
C10_WriteOnceCell == WriteOnce /\ []CellOfFirstEntrant

\* A later worker is in the critical section with a smaller TTFB than the
\* one stored.
C10_Witness ==
    /\ ttfbSet
    /\ \E s \in Goroutines : s.pc = "cs" /\ s.res.TTFB < firstTTFB

\* C11 as stated: a write-mode fetch whose body ended short of chunk.Size
\* returns an outcome carrying an error; it succeeds only with exactly
\* chunk.Size bytes read.
C11_ShortReadFails ==
    dcPc = "done" /\ dcCapture /\ dcRes.Err = NilErr =>
        dcRes.Size = dcChunk.Size

\* The sum of the sizes of a sequence of descriptors.
RECURSIVE SumSizes(_)
SumSizes(seq) ==
    IF seq = <<>> THEN 0 ELSE Head(seq).Size + SumSizes(Tail(seq))

\* C12 as stated: for all objectSize >= 0 and chunkSize > 0 the descriptors
\* planChunks builds are numbered 0..N-1 in order, start at 0, follow each
\* other without gap or overlap inside [0, objectSize), have size
\* end - start + 1, and those returned end at objectSize - 1 and sum to
\* objectSize.
C12_Partition ==
    /\ \A i \in 1..Len(plChunks) :
          /\ plChunks[i].Index = i - 1
          /\ plChunks[i].RangeStart =
                (IF i = 1 THEN 0 ELSE plChunks[i - 1].RangeEnd + 1)
          /\ plChunks[i].RangeStart <= plChunks[i].RangeEnd
          /\ plChunks[i].RangeEnd <= plObjectSize - 1
          /\ plChunks[i].Size =
                plChunks[i].RangeEnd - plChunks[i].RangeStart + 1
    /\ plPc = "done" =>
          /\ SumSizes(plChunks) = plObjectSize
          /\ plObjectSize > 0 =>
                plChunks[Len(plChunks)].RangeEnd = plObjectSize - 1

\* ceil(a / b) for a >= 0, b > 0.
CeilDiv(a, b) == (a + b - 1) \div b

\* C13 as stated: for all objectSize >= 0 and chunkSize > 0 planChunks
\* returns ceil(objectSize / chunkSize) descriptors (none for an empty
\* object), each of size chunkSize but the last, whose size is in
\* 1..chunkSize; plan(10, 3) is [{0,0,2,3},{1,3,5,3},{2,6,8,3},{3,9,9,1}].
C13_CountAndSizes ==
    /\ Len(plChunks) <= CeilDiv(plObjectSize, plChunkSize)
    /\ plPc = "done" =>
          /\ Len(plChunks) = CeilDiv(plObjectSize, plChunkSize)
          /\ \A i \in 1..Len(plChunks) :
                IF i < Len(plChunks)
                THEN plChunks[i].Size = plChunkSize
                ELSE plChunks[i].Size \in 1..plChunkSize
          /\ plObjectSize = 10 /\ plChunkSize = 3 =>
                plChunks =
                  <<[Index |-> 0, RangeStart |-> 0, RangeEnd |-> 2, Size |-> 3],
                    [Index |-> 1, RangeStart |-> 3, RangeEnd |-> 5, Size |-> 3],
                    [Index |-> 2, RangeStart |-> 6, RangeEnd |-> 8, Size |-> 3],
                    [Index |-> 3, RangeStart |-> 9, RangeEnd |-> 9, Size |-> 1]>>

\* The elapsed time of the outcome of index i handed to computeStats.
ElapsedOf(i) == stResult.Chunks[i].ElapsedTotal

\* How many outcomes have an elapsed time below v, and at most v.
CountBelow(v) ==
    Cardinality({i \in DOMAIN stResult.Chunks : ElapsedOf(i) < v})

CountAtMost(v) ==
    Cardinality({i \in DOMAIN stResult.Chunks : ElapsedOf(i) <= v})

\* The k-th smallest elapsed time, k in 1..n, repeats counted.
KthSmallest(k) ==
    CHOOSE v \in {ElapsedOf(i) : i \in DOMAIN stResult.Chunks} :
        CountBelow(v) < k /\ k <= CountAtMost(v)

\* ceil(p * n / 100) - 1 clamped to [0, n-1].
NearestRankIndex(p, n) ==
    LET c == CHOOSE x \in 0..n : 100 * x >= p * n /\ 100 * (x - 1) < p * n
    IN  IF c - 1 < 0 THEN 0 ELSE IF c - 1 >= n THEN n - 1 ELSE c - 1

\* C17: for a non-empty result, computeStats returns as P50, P95 and P99 the
\* elapsed time at index ceil(p*n/100) - 1, clamped to [0, n-1], of the
\* elapsed times in ascending order, and as Min and Max the first and the
\* last of them.
C17_NearestRank ==
    stPc = "done" /\ NumChunks(stResult) > 0 =>
        LET n == NumChunks(stResult)
            l == stSummary.ChunkLatency
        IN  /\ l.P50 = KthSmallest(NearestRankIndex(50, n) + 1)
            /\ l.P95 = KthSmallest(NearestRankIndex(95, n) + 1)
            /\ l.P99 = KthSmallest(NearestRankIndex(99, n) + 1)
            /\ l.Min = KthSmallest(1)
            /\ l.Max = KthSmallest(n)

\* A result of at least 100 outcomes has been summarised and its median,
\* P95, P99 and maximum are four different values.
C17_Witness ==
    /\ stPc = "done"
    /\ NumChunks(stResult) >= 100
    /\ stSummary.ChunkLatency.P50 < stSummary.ChunkLatency.P95
    /\ stSummary.ChunkLatency.P95 < stSummary.ChunkLatency.P99
    /\ stSummary.ChunkLatency.P99 < stSummary.ChunkLatency.Max

\* The six latency fields of the summary.
LatencyFields(l) == {l.Min, l.Max, l.Mean, l.P50, l.P95, l.P99}

\* C18: with no outcome all six latency fields are zero; with one outcome
\* all six are its elapsed time; for the elapsed times 100, 200, 300, 400 in
\* any order P50 is 200 and P95 is 400.
C18_EdgeCases ==
    stPc = "done" =>
        LET n == NumChunks(stResult)
            l == stSummary.ChunkLatency
        IN  /\ n = 0 => LatencyFields(l) = {0}
            /\ n = 1 => LatencyFields(l) = {ElapsedOf(0)}
            /\ (/\ n = 4
                /\ {ElapsedOf(i) : i \in 0..3} = {100, 200, 300, 400}) =>
                   l.P50 = 200 /\ l.P95 = 400

\* The elapsed times 100, 200, 300, 400, handed over out of order, have
\* been summarised.
C18_Witness ==
    /\ stPc = "done"
    /\ NumChunks(stResult) = 4
    /\ {ElapsedOf(i) : i \in 0..3} = {100, 200, 300, 400}
    /\ ElapsedOf(0) > ElapsedOf(3)
    /\ stSummary.ChunkLatency.P50 = 200

\* The sum of outcome.Size: every size s, as often as it occurs.
RECURSIVE SizeSum(_)
SizeSum(s) ==
    IF s = 0 THEN 0
    ELSE SizeSum(s - 1)
         + s * Cardinality({i \in DOMAIN stResult.Chunks :
                               stResult.Chunks[i].Size = s})

\* Whether the float f is bytes per second over 2^shift, bytes having been
\* moved in ticks clock ticks, up to the rounding of the float operations
\* (a relative error of 4 * 2^-FloatBits).
IsRate(f, shift, bytes, ticks) ==
    LET num == bytes * TicksPerSecond
        e   == f.e + shift
        lhs == IF e >= 0 THEN f.m * 2 ^ e * ticks ELSE f.m * ticks
        rhs == IF e >= 0 THEN num ELSE num * 2 ^ (-e)
        d   == IF lhs >= rhs THEN lhs - rhs ELSE rhs - lhs
    IN  d * 2 ^ FloatBits <= 4 * rhs

\* C19: TotalBytes is the sum of outcome.Size over the outcomes; both
\* throughputs are 0 when the total elapsed time is <= 0, and TotalBytes over
\* the elapsed seconds over 2^20 (MB/s) and 2^30 (GB/s) otherwise.
C19_BytesAndThroughput ==
    stPc = "done" =>
        /\ stSummary.TotalBytes = SizeSum(MaxChunkSize)
        /\ stResult.TotalTime <= 0 =>
              stSummary.ThroughputMB = FZero /\ stSummary.ThroughputGB = FZero
        /\ stResult.TotalTime > 0 =>
              /\ IsRate(stSummary.ThroughputMB, 20, SizeSum(MaxChunkSize),
                        stResult.TotalTime)
              /\ IsRate(stSummary.ThroughputGB, 30, SizeSum(MaxChunkSize),
                        stResult.TotalTime)

\* A result whose outcomes differ in size and whose total time is more than a
\* second has been summarised with a non-zero throughput.
C19_Witness ==
    /\ stPc = "done"
    /\ stResult.TotalTime > TicksPerSecond
    /\ stSummary.TotalBytes > NumChunks(stResult)
    /\ stSummary.ThroughputMB.m > 0
    /\ stSummary.ThroughputGB = FDivPow2(stSummary.ThroughputMB, 10)

\* The MB/s throughput of the i-th summary handed to computeAggregate.
MBOf(i) == agSummaries[i].ThroughputMB

\* The smallest exponent among the throughputs handed over.
MinExp == MinOf({MBOf(i).e : i \in 1..Len(agSummaries)})

\* The sum of the first k throughputs, exactly, in units of 2^MinExp.
RECURSIVE ExactSum(_)
ExactSum(k) ==
    IF k = 0 THEN 0 ELSE ExactSum(k - 1) + MBOf(k).m * 2 ^ (MBOf(k).e - MinExp)

\* Whether the float f is the arithmetic mean of the n throughputs up to the
\* rounding of the n float operations that compute it (a relative error of
\* (n + 1) * 2^-FloatBits).
IsMean(f, n) ==
    LET e   == f.e - MinExp
        lhs == IF e >= 0 THEN f.m * 2 ^ e * n ELSE f.m * n
        rhs == IF e >= 0 THEN ExactSum(n) ELSE ExactSum(n) * 2 ^ (-e)
        d   == IF lhs >= rhs THEN lhs - rhs ELSE rhs - lhs
    IN  d * 2 ^ FloatBits <= (n + 1) * rhs

\* What computeAggregate returns apart from the place of the mean: the run
\* count, the smallest and the largest throughput, the mean up to rounding,
\* the GB/s fields as the MB/s fields over 1024, and for a single run that
\* run's throughput three times.
AggregateOfRuns ==
    LET n == Len(agSummaries)
        a == agAggregate
    IN  /\ a.Runs = n
        /\ \E i \in 1..n : a.MinThroughputMB = MBOf(i)
        /\ \A i \in 1..n : ~FLess(MBOf(i), a.MinThroughputMB)
        /\ \E i \in 1..n : a.MaxThroughputMB = MBOf(i)
        /\ \A i \in 1..n : ~FLess(a.MaxThroughputMB, MBOf(i))
        /\ IsMean(a.MeanThroughputMB, n)
        /\ a.MinThroughputGB = FDivPow2(a.MinThroughputMB, 10)
        /\ a.MaxThroughputGB = FDivPow2(a.MaxThroughputMB, 10)
        /\ a.MeanThroughputGB = FDivPow2(a.MeanThroughputMB, 10)
        /\ n = 1 => /\ a.MinThroughputMB = MBOf(1)
                    /\ a.MeanThroughputMB = MBOf(1)
                    /\ a.MaxThroughputMB = MBOf(1)

\* C20 as stated: for a non-empty sequence of summaries computeAggregate
\* returns the count, the smallest, the largest and the mean throughput, the
\* GB/s fields as the MB/s fields over 1024, and Min <= Mean <= Max.
C20_Original ==
    agPc = "done" /\ Len(agSummaries) > 0 =>
        /\ AggregateOfRuns
        /\ ~FLess(agAggregate.MeanThroughputMB, agAggregate.MinThroughputMB)
        /\ ~FLess(agAggregate.MaxThroughputMB, agAggregate.MeanThroughputMB)

\* C20, amended: the same without Min <= Mean <= Max for more than one run:
\* the mean is the float64 quotient of the float64 sum, which rounding may
\* leave just below the smallest or just above the largest throughput.
C20_MeanUpToRounding ==
    agPc = "done" /\ Len(agSummaries) > 0 => AggregateOfRuns

\* Three runs of different throughputs have been aggregated, the mean lying
\* strictly between the smallest and the largest.
C20_Witness ==
    /\ agPc = "done"
    /\ Len(agSummaries) >= 3
    /\ FLess(agAggregate.MinThroughputMB, agAggregate.MeanThroughputMB)
    /\ FLess(agAggregate.MeanThroughputMB, agAggregate.MaxThroughputMB)
    /\ agAggregate.MinThroughputMB.m > 0

\* The runs a summary has been produced for, in the level under way and in
\* the sweeps.
Summarised == RunsOf(seLevel, seRunSummaries) \cup RunsOfSweeps(seSweeps)

\* C14: when the dispatch of a run fails the session aborts at that run: it
\* is the last dispatch, no summary is produced for it, and no report
\* covering it is printed.
C14_AbortAtFailedRun ==
    \A i \in 1..Len(seFailures) :
        /\ i = 1
        /\ seFailures[i] = seDispatched[Len(seDispatched)]
        /\ sePc \in {"check", "aborted"}
        /\ seFailures[i] \notin Summarised
        /\ \A j \in 1..Len(seEmitted) : seFailures[i] \notin seEmitted[j].runs

\* The session has aborted on the failure of the last run of the second
\* concurrency level, the first level's sweep being complete and printed.
C14_Witness ==
    /\ sePc = "aborted"
    /\ seFailures = <<(<<2, seCfg.Runs>>)>>
    /\ seCfg.Runs > 1
    /\ Len(seSweeps) = 1
    /\ \E j \in 1..Len(seEmitted) : seEmitted[j].kind = "aggregate"

\* C15: when HeadObject fails or answers without a content length, the
\* session aborts before any planning: planChunks is not called and no
\* dispatch, hence no ranged fetch, takes place.
C15_NoPlanWithoutSize ==
    seHead # <<>> /\ (seHead.err \/ seHead.ContentLength = NoLength) =>
        /\ sePc = "aborted"
        /\ sePlanned = 0
        /\ seChunks = <<>>
        /\ seDispatched = <<>>

\* HeadObject has answered without a content length and the session has
\* aborted.
C15_Witness ==
    /\ seHead # <<>>
    /\ ~seHead.err
    /\ seHead.ContentLength = NoLength
    /\ sePc = "aborted"

\* C16: after a session whose every run succeeded the sweeps are one per
\* configured concurrency value, in the order of the list; entry k carries
\* the k-th value, Runs summaries numbered 1..Runs in order, each with that
\* value as its concurrency, and an aggregate over Runs runs.
C16_SweepPerLevel ==
    sePc = "exited" /\ seFailures = <<>> =>
        /\ Len(seSweeps) = Len(seCfg.ConcurrencyList)
        /\ \A k \in 1..Len(seSweeps) :
              /\ seSweeps[k].Concurrency = seCfg.ConcurrencyList[k]
              /\ Len(seSweeps[k].Summaries) = seCfg.Runs
              /\ \A r \in 1..Len(seSweeps[k].Summaries) :
                    /\ seSweeps[k].Summaries[r].RunNumber = r
                    /\ seSweeps[k].Summaries[r].Concurrency =
                          seCfg.ConcurrencyList[k]
              /\ seSweeps[k].Aggregate.Runs = seCfg.Runs

\* A session of two different concurrency values and more than one run has
\* ended with every run succeeded.
C16_Witness ==
    /\ sePc = "exited"
    /\ seFailures = <<>>
    /\ Len(seCfg.ConcurrencyList) > 1
    /\ seCfg.ConcurrencyList[1] # seCfg.ConcurrencyList[2]
    /\ seCfg.Runs > 1
    /\ Len(seChunks) > 1

\* The aggregate mean throughput of the i-th sweep (from 1).
MeanOfSweep(i) == cmpSweeps[i].Aggregate.MeanThroughputMB

\* The sweeps' means are 100, 250 and 240 MB/s, in this order.
IsExampleSweeps ==
    /\ Len(cmpSweeps) = 3
    /\ MeanOfSweep(1) = Float64(100)
    /\ MeanOfSweep(2) = Float64(250)
    /\ MeanOfSweep(3) = Float64(240)

\* C21: after the scan of a non-empty list of sweeps, the marked index is
\* that of a sweep no other sweep's mean exceeds, every earlier sweep's mean
\* is strictly smaller, and for the means 100, 250, 240 it is 1.
C21_BestIsFirstGreatest ==
    cmpPc = "done" =>
       /\ cmpBestIdx \in 0..(Len(cmpSweeps) - 1)
       /\ \A i \in 1..Len(cmpSweeps) :
             ~FLess(MeanOfSweep(cmpBestIdx + 1), MeanOfSweep(i))
       /\ \A i \in 1..cmpBestIdx :
             FLess(MeanOfSweep(i), MeanOfSweep(cmpBestIdx + 1))
       /\ IsExampleSweeps => cmpBestIdx = 1

\* The scan has run over three sweeps whose greatest mean occurs twice, the
\* first time in the middle.
C21_Witness ==
    /\ cmpPc = "done"
    /\ Len(cmpSweeps) = 3
    /\ cmpBestIdx = 1
    /\ MeanOfSweep(3) = MeanOfSweep(2)
    /\ FLess(MeanOfSweep(1), MeanOfSweep(2))

\* The sum of outcome.Size over the first k outcomes of a result table.
RECURSIVE OutcomeBytes(_, _)
OutcomeBytes(table, k) ==
    IF k = 0 THEN 0 ELSE OutcomeBytes(table, k - 1) + table[k - 1].Size

\* The workers of the run that are reading a body, some bytes already read.
MidBody == {s \in BagToSet(rnPool) : s.pc = "read" /\ s.n > 0}

\* C22: from the start of a run's dispatch to its return the progress
\* counter is not negative, equals the number of body bytes the run's
\* workers have read so far, and after a successful dispatch the sum of the
\* outcomes' sizes; no step of the dispatch decreases it.
C22_ProgressCountsBytes ==
    /\ [](rnPc \in {"dispatch", "returned"} =>
             /\ rnProgress >= 0
             /\ rnProgress = rnRead
             /\ (rnPc = "returned" /\ rnRet.err = NilErr) =>
                   rnProgress = OutcomeBytes(rnRet.result.Chunks,
                                             Len(rnChunks)))
    /\ [][rnPc = "dispatch" => rnProgress' >= rnProgress]_vars

\* Two workers are inside their bodies at once, their bytes counted.
C22_Witness ==
    /\ rnPc = "dispatch"
    /\ Cardinality(MidBody) + (IF \E s \in MidBody : CopiesIn(s, rnPool) > 1
                               THEN 1 ELSE 0) >= 2
    /\ rnProgress >= 2

\* The first k buffers of a buffer table, concatenated in index order.
RECURSIVE ConcatBufs(_, _)
ConcatBufs(bufs, k) ==
    IF k = 0 THEN <<>> ELSE ConcatBufs(bufs, k - 1) \o BytesOf(bufs[k - 1])

\* Some run of the session has been flushed to the output file.
SomeRunFlushed == rnPc \in {"run", "done"} /\ (rnRun > 1 \/ rnLevel > 1)

\* C23: in write mode, once a successful run is flushed, the output file
\* holds exactly the run's chunk buffers concatenated in ascending index
\* order: one copy, from offset 0, however many runs came before.
C23_SingleOrderedCopy ==
    (~rnCfg.DiscardOutput /\ SomeRunFlushed) =>
       rnFile.bytes = ConcatBufs(rnOutBufs, Len(rnChunks))

\* A write-mode dispatch has returned an error to main.
CaptureFailed ==
    /\ ~rnCfg.DiscardOutput
    /\ rnPc \in {"returned", "fatal"}
    /\ rnRet.err # NilErr

\* C26: when a write-mode dispatch has failed, the buffer slot of every
\* failed chunk is unset, no slot of the caller's buffer table holds a
\* buffer, the result returned holds no outcomes, and the output file has
\* received nothing from the run (a first run leaves it empty).
C26_NothingSurfaced ==
    CaptureFailed =>
       /\ \A i \in Failed(rnResults) : rnOutBufs[i] = NilBuf
       /\ \A i \in DOMAIN rnOutBufs : rnOutBufs[i] = NilBuf
       /\ rnRet.result = ZeroDownloadResult
       /\ (rnLevel = 1 /\ rnRun = 1) => rnFile = EmptyFile

\* C25: once a chunk fetch of the dispatch has returned an error, no step
\* starts another fetch: the count of fetches started stays as it is.
C25_NoFetchAfterFailure == [][errs # {} => fetches' = fetches]_vars

\* The configuration parseConfig returned.
Cfg == cfOut.cfg

\* C24: a configuration returned without error has exactly one output mode
\* (discard without a file, or a file without discard; discard when neither
\* flag was given), a non-empty concurrency list of values >= 1, Runs >= 1
\* and ChunkSize >= 1; and main builds its client only with such a
\* configuration.
C24_ValidOrRejected ==
    /\ (cfPc # "flags" /\ cfOut.err = "nil") =>
          /\ \/ Cfg.DiscardOutput /\ Cfg.OutputFile = ""
             \/ ~Cfg.DiscardOutput /\ Cfg.OutputFile # ""
          /\ (~cfFlags.DiscardOutput /\ cfFlags.OutputFile = "") =>
                Cfg.DiscardOutput
          /\ Len(Cfg.ConcurrencyList) >= 1
          /\ \A i \in 1..Len(Cfg.ConcurrencyList) :
                Cfg.ConcurrencyList[i] >= 1
          /\ Cfg.Runs >= 1
          /\ Cfg.ChunkSize >= 1
    /\ (cfPc # "flags" /\ cfFlags.DiscardOutput
          /\ cfFlags.OutputFile # "") => cfOut.err # "nil"
    /\ cfClient => (cfPc # "flags" /\ cfOut.err = "nil")

\* A list with a blank piece and a padded value was accepted, neither
\* output flag given, and main has gone on.
C24_Witness ==
    /\ cfClient
    /\ cfFlags.rawConcurrency = <<"1", ",", " ">>
    /\ Cfg.ConcurrencyList = <<1>>
    /\ ~cfFlags.DiscardOutput
    /\ Cfg.DiscardOutput

\* The positions of an event in the trace of the fetch.
EventAt(ev) == {i \in DOMAIN dcTrace : dcTrace[i] = ev}

\* C27: the events of a chunk fetch come in the order start, GetObject,
\* ttfb, the reads of the body, totalElapsed: ttfb is recorded before any
\* body byte is read and before progress is incremented, totalElapsed after
\* the last read; a successful outcome has TTFB <= ElapsedTotal.
C27_EventOrder ==
    /\ \A i \in DOMAIN dcTrace :
          /\ i = 1 => dcTrace[i] = "start"
          /\ i = 2 => dcTrace[i] = "GetObject"
          /\ i = 3 => dcTrace[i] = "ttfb"
          /\ i > 3 => dcTrace[i] \in {"Read", "totalElapsed"}
          /\ dcTrace[i] = "totalElapsed" => i = Len(dcTrace)
    /\ (dcN > 0 \/ progress > 0) =>
          /\ EventAt("ttfb") = {3}
          /\ dcTTFB >= 1
          /\ \A i \in EventAt("Read") : i > 3
    /\ (dcPc = "done" /\ dcRes.Err = NilErr) =>
          /\ EventAt("totalElapsed") = {Len(dcTrace)}
          /\ dcRes.TTFB = dcTTFB
          /\ dcRes.TTFB <= dcRes.ElapsedTotal

\* A fetch has succeeded after two reads of its body, the body taking time.
C27_Witness ==
    /\ dcPc = "done"
    /\ dcRes.Err = NilErr
    /\ Cardinality(EventAt("Read")) = 2
    /\ progress = 2
    /\ dcRes.TTFB < dcRes.ElapsedTotal

ReporterGone(r) == rpReporters[r].pc \in {"none", "exited"}

\* The stop function of run r has returned (or there was none to call).
StopReturned(r) ==
    \/ r < rpRun
    \/ r = rpRun /\ rpMain \in {"check", "fatal"}
    \/ rpMain = "done"

\* Where a printed line belongs: run after run, and within a run the
\* progress lines, the cleared line, then the summary or the error.
LineRank(line) ==
    3 * line[1] + (CASE line[2] = "progress" -> 0
                     [] line[2] = "clear" -> 1
                     [] OTHER -> 2)

\* C29: once the stop function of a run has returned, the run's reporter
\* goroutine has exited; the output holds each run's progress lines, then its
\* cleared line, then its summary, no line of a reporter after them or inside
\* the next run's; and a call of the stop function always returns.
C29_StopJoinsReporter ==
    /\ [](\A r \in DOMAIN rpReporters : StopReturned(r) => ReporterGone(r))
    /\ [](\A i \in 1..(Len(rpOut) - 1) :
             LineRank(rpOut[i]) < LineRank(rpOut[i + 1]))
    /\ (rpMain = "wait") ~> (rpMain # "wait")

\* The stop function of the second run has returned with a tick left in the
\* ticker's channel, after progress lines of both runs.
C29_Witness ==
    /\ rpRun = 2
    /\ rpMain = "check"
    /\ rpReporters[2].tick
    /\ \E i \in DOMAIN rpOut : rpOut[i] = <<1, "progress">>
    /\ \E i \in DOMAIN rpOut : rpOut[i] = <<2, "progress">>

====
